---------------------------- MODULE Spec2Model ----------------------------
(***************************************************************************)
(* Digital rain clock firmware (DigitalRainClock.ino, the variant with the *)
(* real-time clock, colour schemes and the settings menu, lines 410-1350). *)
(*                                                                         *)
(* The firmware is one cooperative loop: handleTouch, checkMinuteTick,     *)
(* then, unless the settings menu is open, updateMatrixRain and            *)
(* updateTimeOverlay.  The model follows one pass of loop() handler by     *)
(* handler (pc), and the column loop of updateMatrixRain iteration by      *)
(* iteration (col).                                                        *)
(*                                                                         *)
(* Representation choices:                                                 *)
(*  - uint32_t millisecond values are pairs <<hi, lo>> of 16-bit halves,   *)
(*    added, subtracted and compared modulo 2^32 as the C code does.       *)
(*  - the columns are independent of one another (the body of the column   *)
(*    loop reads and writes columns[col] and glyphs[col] only), so a       *)
(*    behaviour tracks the columns of DOMAIN columns, a subset of          *)
(*    0..NUM_COLS-1 chosen by the initial state.                           *)
(*  - random(), the touch controller, the real-time clock's progress and   *)
(*    millis() are the environment: their values are drawn from the input  *)
(*    sets below.                                                          *)
(*  - calls is the list of drawing-surface calls issued so far in the      *)
(*    current pass of loop().                                              *)
(***************************************************************************)
EXTENDS Integers, Sequences, FiniteSets, TLC

----------------------------------------------------------------------------
(* Program constants *)

SCREEN_W == 320
SCREEN_H == 240
TEXT_SCALE == 1
FONT_PIXEL_W == 6
FONT_PIXEL_H == 8
CHAR_W == FONT_PIXEL_W * TEXT_SCALE
CHAR_H == FONT_PIXEL_H * TEXT_SCALE
NUM_COLS == SCREEN_W \div CHAR_W
NUM_ROWS == SCREEN_H \div CHAR_H
MIN_TAIL_LEN == 14
MAX_TAIL_LEN == 20
MIN_INTERVAL == 60
MAX_INTERVAL == 160
TIME_TEXT_LENGTH == 5
TIME_OVERLAY_DURATION_MS == 3600
TIME_TEXT_SIZE == 6
NUM_COLOR_SCHEMES == 5
COLOR_TOGGLE_REGION_W == 60
COLOR_TOGGLE_REGION_H == 60
COLOR_TOGGLE_DEBOUNCE_MS == 250
SETTINGS_TOGGLE_REGION_W == 60
SETTINGS_TOGGLE_REGION_H == 60
SETTINGS_TOGGLE_DEBOUNCE_MS == 250
SETTINGS_BUTTON_DEBOUNCE_MS == 200
SETTINGS_PANEL_MARGIN == 10
SETTINGS_BUTTON_W == 80
SETTINGS_BUTTON_H == 40
SETTINGS_BUTTON_SPACING == 10
SETTINGS_LABEL_OFFSET_ADJUST == 5
SETTINGS_BUTTON_VERTICAL_OFFSET == 10
SETTINGS_TIME_TEXT_SIZE == 3

(* Adafruit_ILI9341 colour names used by the sketch (RGB565) *)
ILI9341_BLACK == 0
ILI9341_WHITE == 65535
ILI9341_GREEN == 2016
ILI9341_DARKGREEN == 992
ILI9341_RED == 63488
ILI9341_YELLOW == 65504
ILI9341_MAGENTA == 63519

(* jitter range of resetColumn: random(-15, 16) *)
JITTER_MAX == 15
(* lowest interval resetColumn lets through *)
INTERVAL_FLOOR == 20
(* randomGlyph: random(33, 126) *)
GLYPH_FIRST == 33
GLYPH_END == 126

----------------------------------------------------------------------------
(* C arithmetic *)

Half == 65536

Abs(n) == IF n < 0 THEN -n ELSE n

(* C integer division truncates toward zero *)
CDiv(a, b) ==
  IF (a >= 0) = (b > 0) THEN Abs(a) \div Abs(b) ELSE -(Abs(a) \div Abs(b))

(* a uint32_t as <<high half, low half>> *)
U32Of(n) == <<(n \div Half) % Half, n % Half>>

ZeroMs == <<0, 0>>

(* a + n modulo 2^32, for a uint32_t a and 0 <= n < 2^31 - 2^16 *)
Add32(a, n) ==
  LET lo == a[2] + (n % Half)
      hi == a[1] + (n \div Half) + (lo \div Half)
  IN  <<hi % Half, lo % Half>>

(* a - b modulo 2^32 *)
Sub32(a, b) ==
  LET lo == a[2] - b[2]
      borrow == IF lo < 0 THEN 1 ELSE 0
      hi == a[1] - b[1] - borrow
  IN  <<hi % Half, lo % Half>>

(* unsigned comparisons of two uint32_t *)
Lt32(a, b) == a[1] < b[1] \/ (a[1] = b[1] /\ a[2] < b[2])
Gt32(a, b) == Lt32(b, a)
Ge32(a, b) == ~Lt32(a, b)

(* unsigned comparison of a uint32_t with a uint16_t promoted to it *)
Lt32n(a, n) == a[1] = 0 /\ a[2] < n
Gt32n(a, n) == a[1] > 0 \/ a[2] > n
Ge32n(a, n) == ~Lt32n(a, n)

(* Adafruit_GFX color565(r, g, b) *)
color565(r, g, b) == (r \div 8) * 2048 + (g \div 4) * 32 + (b \div 8)

(* Arduino map(x, in_min, in_max, out_min, out_max) *)
map(x, in_min, in_max, out_min, out_max) ==
  CDiv((x - in_min) * (out_max - out_min), in_max - in_min) + out_min

Rows == 0 .. NUM_ROWS - 1


----------------------------------------------------------------------------
(* Column parameters: resetColumn *)

(* baseInterval of resetColumn, a uint16_t *)
(* a faulty variant: the scaling by the tail span is left out *)
BaseIntervalUnscaled(tailLength) ==
  (MIN_INTERVAL
     + (((tailLength - MIN_TAIL_LEN) * (MAX_INTERVAL - MIN_INTERVAL)) % Half))
  % Half

BaseInterval(tailLength) ==
  LET span == MAX_TAIL_LEN - MIN_TAIL_LEN
      tailSpan == IF span < 1 THEN 1 ELSE span
      scaled == CDiv((tailLength - MIN_TAIL_LEN) * (MAX_INTERVAL - MIN_INTERVAL),
                     tailSpan)
  IN  (MIN_INTERVAL + (scaled % Half)) % Half

(* intervalWithJitter of resetColumn after the clamp *)
IntervalWithJitter(tailLength, jitter) ==
  LET intervalWithJitter == BaseInterval(tailLength) + jitter
  IN  IF intervalWithJitter < INTERVAL_FLOOR THEN INTERVAL_FLOOR
      ELSE intervalWithJitter

(* resetColumn(col) on the column state c, where random(MIN_TAIL_LEN,       *)
(* MAX_TAIL_LEN + 1) returned tail, random(-15, 16) returned jitter and      *)
(* millis() returned ms; headRow is left alone                               *)
resetColumn(c, tail, jitter, ms) ==
  [ headRow      |-> c.headRow,
    intervalMs   |-> IntervalWithJitter(tail % 256, jitter) % Half,
    lastUpdateMs |-> ms,
    tailLength   |-> tail % 256 ]

(* a ColumnState of the zero-initialised global array *)
ZeroColumn ==
  [ headRow |-> 0, intervalMs |-> 0, lastUpdateMs |-> ZeroMs, tailLength |-> 0 ]

(* a faulty variant: the new headRow is never assigned *)
InitColumnKeepHead(c, tail, jitter, head, ms) ==
  resetColumn(c, tail, jitter, ms)

(* one iteration of initColumns' second loop: resetColumn, then              *)
(* headRow = random(-NUM_ROWS, 0)                                            *)
InitColumn(c, tail, jitter, head, ms) ==
  [ resetColumn(c, tail, jitter, ms) EXCEPT !.headRow = head ]

(* the values random(lo, hi) can return *)
RandomRange(lo, hi) == lo .. hi - 1

----------------------------------------------------------------------------
(* Overlay geometry: calcTimeOverlayArea, run once by setup() *)

OverlayVPad == (1 * TIME_TEXT_SIZE) + 2

OverlayTextPixelW == TIME_TEXT_LENGTH * (FONT_PIXEL_W * TIME_TEXT_SIZE)

OverlayCharPixelH == FONT_PIXEL_H * TIME_TEXT_SIZE

overlayAreaX ==
  LET tx == CDiv(SCREEN_W - OverlayTextPixelW, 2) IN IF tx < 0 THEN 0 ELSE tx

overlayAreaY ==
  LET ty == CDiv(SCREEN_H - OverlayCharPixelH, 2)
  IN  (IF ty < 0 THEN 0 ELSE ty) - OverlayVPad

overlayAreaW == OverlayTextPixelW - 1

overlayAreaH == OverlayCharPixelH + OverlayVPad

startOverlayCol == CDiv(overlayAreaX, CHAR_W)

endOverlayCol == CDiv(overlayAreaX + overlayAreaW, CHAR_W)

(* a faulty variant: the first overlay column counts as outside *)
isOverlayAreaAfterFirstCol(active, c, y, h) ==
  IF ~active THEN FALSE
  ELSE IF c <= startOverlayCol \/ c > endOverlayCol THEN FALSE
  ELSE y < overlayAreaY + overlayAreaH /\ y + h > overlayAreaY

(* isOverlayArea(col, y, h) with overlay.active = active *)
isOverlayArea(active, c, y, h) ==
  IF ~active THEN FALSE
  ELSE IF c < startOverlayCol \/ c > endOverlayCol THEN FALSE
  ELSE y < overlayAreaY + overlayAreaH /\ y + h > overlayAreaY

----------------------------------------------------------------------------
(* Drawing-surface calls *)

(* set once by setup() and never changed *)
matrixBgColor == ILI9341_BLACK

Call(by, x, y, w, h, what, color) ==
  [ by |-> by, x |-> x, y |-> y, w |-> w, h |-> h, what |-> what, color |-> color ]

(* drawRainChar(col, row, ch, color): the calls it issues *)
drawRainChar(active, c, row, ch, color) ==
  IF row < 0 \/ row >= NUM_ROWS THEN <<>>
  ELSE IF isOverlayArea(active, c, row * CHAR_H, CHAR_H) THEN <<>>
  ELSE << Call("drawRainChar", c * CHAR_W, row * CHAR_H, CHAR_W, CHAR_H, ch, color) >>

(* clearRainChar(col, row): the calls it issues *)
clearRainChar(active, c, row) ==
  IF row < 0 \/ row >= NUM_ROWS THEN <<>>
  ELSE IF isOverlayArea(active, c, row * CHAR_H, CHAR_H) THEN <<>>
  ELSE << Call("clearRainChar", c * CHAR_W, row * CHAR_H, CHAR_W, CHAR_H, 0,
               matrixBgColor) >>

----------------------------------------------------------------------------
(* Trail fade boundaries of updateMatrixRain *)

BrightDist(tailLen) ==
  LET b0 == CDiv(tailLen, 5)
      b1 == IF b0 < 1 THEN 1 ELSE b0
  IN  IF b1 >= tailLen THEN tailLen - 1 ELSE b1

(* a faulty variant: the dark zone starts three quarters down the trail *)
DarkStartDistThreeQuarters(tailLen) == CDiv(tailLen * 3, 4)

DarkStartDist(tailLen) ==
  LET d0 == CDiv(tailLen * 4, 5)
      d1 == IF d0 <= BrightDist(tailLen) + 1 THEN BrightDist(tailLen) + 2 ELSE d0
  IN  IF d1 >= tailLen THEN tailLen - 1 ELSE d1

----------------------------------------------------------------------------
(* Colour schemes: initColorSchemes *)

colorSchemes ==
  << [ head |-> ILI9341_WHITE, bright |-> ILI9341_GREEN,
       dim |-> ILI9341_DARKGREEN, dark |-> color565(0, 70, 0) ],
     [ head |-> color565(255, 220, 220), bright |-> ILI9341_RED,
       dim |-> color565(120, 0, 0), dark |-> color565(60, 0, 0) ],
     [ head |-> color565(220, 240, 255), bright |-> color565(0, 180, 255),
       dim |-> color565(0, 90, 170), dark |-> color565(0, 40, 90) ],
     [ head |-> color565(255, 255, 210), bright |-> ILI9341_YELLOW,
       dim |-> color565(180, 140, 0), dark |-> color565(120, 90, 0) ],
     [ head |-> color565(240, 210, 255), bright |-> ILI9341_MAGENTA,
       dim |-> color565(120, 0, 150), dark |-> color565(70, 0, 90) ] >>

(* a faulty variant: the index is stored but the colours are not copied *)
applyColorSchemeIndexOnly(index) ==
  << IF index >= NUM_COLOR_SCHEMES THEN 0 ELSE index, colorSchemes[1] >>

(* applyColorScheme(index): <<currentColorScheme, the four rain colours>>;   *)
(* colorSchemes is indexed from 0 in the sketch, from 1 here                 *)
applyColorScheme(index) ==
  LET i == IF index >= NUM_COLOR_SCHEMES THEN 0 ELSE index
  IN  << i, colorSchemes[i + 1] >>

----------------------------------------------------------------------------
(* Clock text: updateTimeTextFromClock *)

(* "%02d" of 0 <= n <= 99 as character codes *)
TwoDigits(n) == << 48 + (n \div 10), 48 + (n % 10) >>

(* a faulty variant: a twelve-hour display, 13 shown as 01 *)
updateTimeTextFromClockTwelveHour(rh, rm) ==
  LET hour == IF rh.hour % 12 = 0 THEN 12 ELSE rh.hour % 12
  IN  TwoDigits(hour) \o << 58 >> \o TwoDigits(rm.minute)

(* updateTimeTextFromClock when the real-time clock read rh at              *)
(* rtc.getHour(true) and rm at rtc.getMinute():                             *)
(* snprintf(timeText, 6, "%02d:%02d", hour, minute) after hour 0 -> 12      *)
updateTimeTextFromClock(rh, rm) ==
  LET hour == IF rh.hour = 0 THEN 12 ELSE rh.hour
  IN  TwoDigits(hour) \o << 58 >> \o TwoDigits(rm.minute)

(* a faulty variant: hour and minute are passed in each other's place *)
rtcSetTimeSwapped(mn, hr, dy, mt, yr) ==
  [ hour |-> mn, minute |-> hr, day |-> dy, month |-> mt - 1, year |-> yr ]

(* ESP32Time setTime(sc, mn, hr, dy, mt, yr): mt is 1-12, getMonth() 0-11 *)
rtcSetTime(mn, hr, dy, mt, yr) ==
  [ hour |-> hr, minute |-> mn, day |-> dy, month |-> mt - 1, year |-> yr ]

(* the days of month m (0-11) of year y *)
DaysInMonth(m, y) ==
  IF m = 1
  THEN (IF (y % 4 = 0 /\ y % 100 # 0) \/ y % 400 = 0 THEN 29 ELSE 28)
  ELSE IF m \in { 3, 5, 8, 10 } THEN 30 ELSE 31

(* the real-time clock's reading one minute after the reading r *)
NextMinute(r) ==
  IF r.minute < 59 THEN [ r EXCEPT !.minute = r.minute + 1 ]
  ELSE IF r.hour < 23 THEN [ r EXCEPT !.minute = 0, !.hour = r.hour + 1 ]
  ELSE IF r.day < DaysInMonth(r.month, r.year)
  THEN [ r EXCEPT !.minute = 0, !.hour = 0, !.day = r.day + 1 ]
  ELSE IF r.month < 11
  THEN [ r EXCEPT !.minute = 0, !.hour = 0, !.day = 1, !.month = r.month + 1 ]
  ELSE [ r EXCEPT !.minute = 0, !.hour = 0, !.day = 1, !.month = 0,
                  !.year = r.year + 1 ]

(* a read of the real-time clock in a handler that was entered with the    *)
(* clock at r0 and whose read before returned r: the clock runs while the   *)
(* program does, so the minute may have changed between the two reads; a    *)
(* handler takes far less than a minute, so it changes at most once from    *)
(* the handler's entry to its return                                        *)
RtcRead(E, r0, r) ==
  IF r = r0 /\ r.hour * 60 + r.minute < E.rtcLimit
  THEN { r, NextMinute(r) }
  ELSE { r }

(* millis() read after the program has drawn, polled the touch panel or     *)
(* returned to loop() since the read before, which returned t               *)
Reads(E, t) == { Add32(t, l) : l \in E.lags }

(* the advance of the counter over n reads that follow one another with     *)
(* nothing but arithmetic in between (the reads of initColumns)            *)
RECURSIVE TightSums(_, _)
TightSums(E, n) ==
  IF n = 0 THEN { 0 }
  ELSE { a + b : a \in TightSums(E, n - 1), b \in E.tight }

(* the n-th of such reads after a read that returned t *)
TightReads(E, t, n) == { Add32(t, d) : d \in TightSums(E, n) }

----------------------------------------------------------------------------
(* Touch regions *)

(* a faulty variant: the corner is placed on a screen 240 wide and 320 high *)
isColorToggleTouchPortrait(x, y) ==
  (x >= (SCREEN_H - COLOR_TOGGLE_REGION_W)) /\ (y >= (SCREEN_W - COLOR_TOGGLE_REGION_H))

isColorToggleTouch(x, y) ==
  (x >= (SCREEN_W - COLOR_TOGGLE_REGION_W)) /\ (y >= (SCREEN_H - COLOR_TOGGLE_REGION_H))

isSettingsToggleTouch(x, y) ==
  (x <= SETTINGS_TOGGLE_REGION_W) /\ (y <= SETTINGS_TOGGLE_REGION_H)

pointInRect(x, y, rx, ry, rw, rh) ==
  x >= rx /\ x <= rx + rw /\ y >= ry /\ y <= ry + rh

ZeroButton == [ x |-> 0, y |-> 0, w |-> 0, h |-> 0 ]

(* the four ButtonRegion globals before drawTimeAdjustControls has run *)
ZeroButtons ==
  [ hourUp |-> ZeroButton, hourDown |-> ZeroButton,
    minuteUp |-> ZeroButton, minuteDown |-> ZeroButton ]

(* the four ButtonRegion globals as drawTimeAdjustControls sets them *)
drawTimeAdjustControls ==
  LET panelX == SETTINGS_PANEL_MARGIN
      panelY == SETTINGS_PANEL_MARGIN
      panelW == SCREEN_W - (SETTINGS_PANEL_MARGIN * 2)
      settingsTimeDisplayY == panelY + 65
      settingsTimeDisplayH == 60
      controlsTop == settingsTimeDisplayY + settingsTimeDisplayH + 30
                       + SETTINGS_LABEL_OFFSET_ADJUST
      hourColumnX == panelX + 30
      minuteColumnX == panelX + panelW - SETTINGS_BUTTON_W - 30
      buttonTop == controlsTop + SETTINGS_BUTTON_VERTICAL_OFFSET
                     + SETTINGS_LABEL_OFFSET_ADJUST
      lower == buttonTop + SETTINGS_BUTTON_H + SETTINGS_BUTTON_SPACING
  IN  [ hourUp     |-> [ x |-> hourColumnX, y |-> buttonTop,
                         w |-> SETTINGS_BUTTON_W, h |-> SETTINGS_BUTTON_H ],
        hourDown   |-> [ x |-> hourColumnX, y |-> lower,
                         w |-> SETTINGS_BUTTON_W, h |-> SETTINGS_BUTTON_H ],
        minuteUp   |-> [ x |-> minuteColumnX, y |-> buttonTop,
                         w |-> SETTINGS_BUTTON_W, h |-> SETTINGS_BUTTON_H ],
        minuteDown |-> [ x |-> minuteColumnX, y |-> lower,
                         w |-> SETTINGS_BUTTON_W, h |-> SETTINGS_BUTTON_H ] ]

InButton(x, y, b) == pointInRect(x, y, b.x, b.y, b.w, b.h)

----------------------------------------------------------------------------
(* State *)

VARIABLES
  clock,                \* millis(): the millisecond counter
  pc,                   \* the handler loop() runs next
  col,                  \* loop variable of updateMatrixRain
  columns,              \* columns[col]: ColumnState of the tracked columns
  glyphs,               \* glyphs[col][row] of the tracked columns
  overlay,              \* TimeOverlay: active, startMs, endMs, needsDraw
  timeText,             \* char timeText[6], without the terminator
  rtc,                  \* the real-time clock's reading
  lastDisplayedMinute,
  currentColorScheme,
  matrix,               \* matrixHeadColor, matrixTrailBright, -Dim, -Dark
  settingsActive,
  settingsHour,
  settingsMinute,
  buttons,              \* hourUpButton, hourDownButton, minuteUpButton, minuteDownButton
  lastSettingsToggleMs,
  lastSettingsButtonMs,
  lastButton,           \* history: the settings control whose press was last accepted
  lastColorToggleMs,
  touch,                \* locals of this pass's handleTouch and the return it took
  adv,                  \* locals of the last iteration of the column loop in this pass
  calls                 \* drawing-surface calls of this pass, in order

vars ==
  << clock, pc, col, columns, glyphs, overlay, timeText, rtc, lastDisplayedMinute,
     currentColorScheme, matrix, settingsActive, settingsHour, settingsMinute,
     buttons, lastSettingsToggleMs, lastSettingsButtonMs, lastButton,
     lastColorToggleMs,
     touch, adv, calls >>

rainVars == << columns, glyphs >>
colorVars == << currentColorScheme, matrix >>
settingsVars == << settingsActive, settingsHour, settingsMinute, buttons >>
debounceVars ==
  << lastSettingsToggleMs, lastSettingsButtonMs, lastButton, lastColorToggleMs >>
clockTextVars == << timeText, rtc, lastDisplayedMinute >>

Tracked == DOMAIN columns

(* the tracked column the loop visits after column c, NUM_COLS when none *)
NextCol(c) ==
  LET later == { k \in Tracked : k > c }
  IN  IF later = {} THEN NUM_COLS
      ELSE CHOOSE k \in later : \A j \in later : k <= j

NoTouch ==
  [ route |-> "idle", p |-> << 0, 0 >>, x |-> 0, y |-> 0, now |-> ZeroMs ]

NoAdv ==
  [ col |-> -1, due |-> FALSE, prevHead |-> 0, tailLen |-> 0,
    respawn |-> FALSE, snap |-> FALSE, at |-> ZeroMs ]

----------------------------------------------------------------------------
(* Overlay operations *)

(* startTimeOverlay(now): the overlay it leaves *)
startTimeOverlay(now) ==
  [ active    |-> TRUE,
    startMs   |-> now,
    endMs     |-> Add32(now, TIME_OVERLAY_DURATION_MS),
    needsDraw |-> TRUE ]

(* a faulty variant: the rectangle is filled on every activation *)
startTimeOverlayCallsAlways(ov) ==
  << Call("startTimeOverlay", overlayAreaX, overlayAreaY, overlayAreaW,
          overlayAreaH, 0, matrixBgColor) >>

(* startTimeOverlay(now): the calls it issues on the overlay ov *)
startTimeOverlayCalls(ov) ==
  IF ~ov.active
  THEN << Call("startTimeOverlay", overlayAreaX, overlayAreaY, overlayAreaW,
               overlayAreaH, 0, matrixBgColor) >>
  ELSE << >>

(* the tft.print(timeText) of updateTimeOverlay *)
OverlayTextCall(text, color) ==
  Call("updateTimeOverlay", overlayAreaX, overlayAreaY + OverlayVPad,
       OverlayTextPixelW, OverlayCharPixelH, text, color)

(* randomGlyph() over the rows of column c in initColumns' first loop, when *)
(* random(33, 126) returns p[1], p[2], ... and then the same values again:  *)
(* the loop draws once per cell, column by column and row by row, so the    *)
(* cell of row r is the draw number c * NUM_ROWS + r, counted from 0        *)
PrefillRows(p, c) ==
  [ r \in Rows |-> p[((c * NUM_ROWS + r) % Len(p)) + 1] ]

(* initColumns' second loop from the column after prev on, when the last    *)
(* millis() read so far returned t: the value resetColumn leaves in         *)
(* lastUpdateMs (its second read, line 727) for each column of K, and the   *)
(* value of the loop's last read.  Every column of the array is reset,      *)
(* with two reads each; prev = -1 and t the first read of column 0 at the   *)
(* start of the loop.                                                       *)
RECURSIVE ColumnStamps(_, _, _, _)
ColumnStamps(E, K, prev, t) ==
  IF K = {}
  THEN { << << >>, last >> :
           last \in TightReads(E, t, IF prev < 0 THEN 2 * NUM_COLS - 1
                                     ELSE 2 * (NUM_COLS - 1 - prev)) }
  ELSE LET c == CHOOSE k \in K : \A j \in K : k <= j
           n == IF prev < 0 THEN 2 * c + 1 ELSE 2 * (c - prev)
       IN  UNION { { << (c :> st) @@ r[1], r[2] >> :
                       r \in ColumnStamps(E, K \ { c }, c, st) } :
                   st \in TightReads(E, t, n) }

(* initColumns on the columns old of the array, when the first millis()     *)
(* read of its second loop returns first: the column states and glyph       *)
(* grids it can leave, and the value of its last read                       *)
InitColumnsOf(E, old, first) ==
  { << [ c \in DOMAIN old |->
           InitColumn(old[c], f[c][1], f[c][2], f[c][3], st[1][c]) ],
       g, st[2] >> :
      f \in [ DOMAIN old -> E.tails \X E.jitters \X E.heads ],
      g \in { [ c \in DOMAIN old |-> PrefillRows(p, c) ] : p \in E.prefills },
      st \in ColumnStamps(E, DOMAIN old, -1, first) }

(* initColumns on the tracked columns *)
InitColumnsResults(E, first) == InitColumnsOf(E, columns, first)

----------------------------------------------------------------------------
(* The environment between two passes of loop() *)

(* loop() returns and is called again: the counter advances by d ms before  *)
(* the next pass starts.  clock is the counter at the latest read of        *)
(* millis(), or at the start of the pass when the pass has not read it yet; *)
(* each read of a pass returns a later value by a lag of the environment.   *)
Elapse(E) ==
  /\ pc = "loop"
  /\ \E d \in E.delays :
       /\ Lt32n(Sub32(Add32(clock, d), E.boot), E.maxClock + 1)
       /\ clock' = Add32(clock, d)
  /\ pc' = "handleTouch"
  /\ touch' = NoTouch
  /\ adv' = NoAdv
  /\ calls' = << >>
  /\ UNCHANGED << col, rainVars, overlay, clockTextVars, colorVars, settingsVars,
                  debounceVars >>

(* The real-time clock reaches the next minute while loop() is between two  *)
(* passes; a minute that changes during a pass is seen by the reads of the  *)
(* handlers (RtcRead).                                                      *)
RtcAdvance(E) ==
  /\ pc = "loop"
  /\ rtc.hour * 60 + rtc.minute < E.rtcLimit
  /\ rtc' = NextMinute(rtc)
  /\ UNCHANGED << clock, pc, col, rainVars, overlay, timeText, lastDisplayedMinute,
                  colorVars, settingsVars, debounceVars, touch, adv, calls >>

----------------------------------------------------------------------------
(* handleTouch *)

(* enterSettingsMenu *)
EnterSettingsMenu(E) ==
  \E rh \in RtcRead(E, rtc, rtc) : \E rm \in RtcRead(E, rtc, rh) :
    /\ settingsActive' = TRUE
    /\ settingsHour' = rh.hour
    /\ settingsMinute' = rm.minute
    /\ rtc' = rm
    /\ buttons' = drawTimeAdjustControls
    /\ calls' = calls \o
         << Call("enterSettingsMenu", 0, 0, SCREEN_W, SCREEN_H, 0, matrixBgColor),
            Call("drawSettingsMenu", SETTINGS_PANEL_MARGIN, SETTINGS_PANEL_MARGIN,
                 SCREEN_W - (SETTINGS_PANEL_MARGIN * 2),
                 SCREEN_H - (SETTINGS_PANEL_MARGIN * 2),
                 << rh.hour, rm.minute >>, matrix.bright) >>
    /\ UNCHANGED << rainVars, overlay, timeText, lastDisplayedMinute, colorVars >>

(* exitSettingsMenu, called by a handleTouch whose millis() returned now.   *)
(* rtc.setTime sets the seconds to 0, so the reads of                       *)
(* updateTimeTextFromClock that follow it see the time just set.  The       *)
(* first millis() of initColumns comes after the fillScreen, the one of     *)
(* line 878 directly after initColumns.                                     *)
ExitSettingsMenu(E, now) ==
  \E ry \in RtcRead(E, rtc, rtc) : \E rm \in RtcRead(E, rtc, ry) :
  \E rd \in RtcRead(E, rtc, rm) :
    LET newRtc == rtcSetTime(settingsMinute, settingsHour, rd.day, rm.month + 1,
                             ry.year)
        cleared == [ overlay EXCEPT !.active = FALSE, !.needsDraw = FALSE ]
    IN  /\ settingsActive' = FALSE
        /\ rtc' = newRtc
        /\ lastDisplayedMinute' = settingsMinute
        /\ timeText' = updateTimeTextFromClock(newRtc, newRtc)
        /\ \E first \in Reads(E, now) : \E r \in InitColumnsResults(E, first) :
             \E start \in TightReads(E, r[3], 1) :
               /\ columns' = r[1]
               /\ glyphs' = r[2]
               /\ overlay' = startTimeOverlay(start)
               /\ clock' = start
        /\ calls' = calls \o
             << Call("exitSettingsMenu", 0, 0, SCREEN_W, SCREEN_H, 0, matrixBgColor) >>
             \o startTimeOverlayCalls(cleared)
        /\ UNCHANGED << settingsHour, settingsMinute, buttons, colorVars >>

(* a faulty variant: every control steps the hour up *)
AdjustHourOnAnyPress(hit, hour) ==
  IF hit # "none" THEN (hour + 1) % 24 ELSE hour

(* settingsHour after the control hit is pressed *)
AdjustHour(hit, hour) ==
  IF hit = "hourUp" THEN (hour + 1) % 24
  ELSE IF hit = "hourDown" THEN (IF hour - 1 < 0 THEN 23 ELSE hour - 1)
  ELSE hour

(* a faulty variant: the minute is stepped without wrapping *)
AdjustMinuteNoWrap(hit, minute) ==
  IF hit = "minuteUp" THEN minute + 1
  ELSE IF hit = "minuteDown" THEN minute - 1
  ELSE minute

(* settingsMinute after the control hit is pressed *)
AdjustMinute(hit, minute) ==
  IF hit = "minuteUp" THEN (minute + 1) % 60
  ELSE IF hit = "minuteDown" THEN (IF minute - 1 < 0 THEN 59 ELSE minute - 1)
  ELSE minute

(* a faulty variant: a press is still ignored when the window has just ended *)
SettingsButtonDebouncedAtWindow(now, last) ==
  ~Gt32n(Sub32(now, last), SETTINGS_BUTTON_DEBOUNCE_MS)

(* now - lastSettingsButtonMs < SETTINGS_BUTTON_DEBOUNCE_MS *)
SettingsButtonDebounced(now, last) ==
  Lt32n(Sub32(now, last), SETTINGS_BUTTON_DEBOUNCE_MS)

(* handleSettingsTouch(x, y); t holds the locals of the calling             *)
(* handleTouch, which has polled the touch panel since its millis()         *)
HandleSettingsTouch(E, t, x, y) ==
  \E now \in Reads(E, t.now) :
  LET hit == IF InButton(x, y, buttons.hourUp) THEN "hourUp"
             ELSE IF InButton(x, y, buttons.hourDown) THEN "hourDown"
             ELSE IF InButton(x, y, buttons.minuteUp) THEN "minuteUp"
             ELSE IF InButton(x, y, buttons.minuteDown) THEN "minuteDown"
             ELSE "none"
      newHour == AdjustHour(hit, settingsHour)
      newMinute == AdjustMinute(hit, settingsMinute)
  IN  IF SettingsButtonDebounced(now, lastSettingsButtonMs)
      THEN /\ touch' = [ t EXCEPT !.route = "buttonDebounce" ]
           /\ clock' = now
           /\ UNCHANGED << settingsHour, settingsMinute, lastSettingsButtonMs,
                           lastButton, calls >>
      ELSE /\ touch' = [ t EXCEPT !.route = hit ]
           /\ clock' = now
           /\ settingsHour' = newHour
           /\ settingsMinute' = newMinute
           /\ IF hit # "none"
              THEN /\ lastSettingsButtonMs' = now
                   /\ lastButton' = hit
                   /\ calls' = Append(calls,
                        Call("updateSettingsTimeDisplay", SETTINGS_PANEL_MARGIN + 20,
                             SETTINGS_PANEL_MARGIN + 65,
                             SCREEN_W - (SETTINGS_PANEL_MARGIN * 2) - 40, 60,
                             TwoDigits(newHour) \o << 58 >> \o TwoDigits(newMinute),
                             matrix.bright))
              ELSE UNCHANGED << lastSettingsButtonMs, lastButton, calls >>

(* a faulty variant: the overlay is marked for a redraw active or not *)
MarkOverlayForRedrawAlways(ov) == [ ov EXCEPT !.needsDraw = TRUE ]

(* cycleColorScheme: an active overlay is marked for a redraw *)
MarkOverlayForRedraw(ov) ==
  IF ov.active THEN [ ov EXCEPT !.needsDraw = TRUE ] ELSE ov

(* cycleColorScheme *)
cycleColorScheme ==
  LET next == (currentColorScheme + 1) % NUM_COLOR_SCHEMES
      applied == applyColorScheme(next)
  IN  /\ currentColorScheme' = applied[1]
      /\ matrix' = applied[2]
      /\ overlay' = MarkOverlayForRedraw(overlay)

(* a faulty variant: the toggle is accepted when the window has just ended *)
SettingsToggleDueAtWindow(now, last) ==
  Ge32n(Sub32(now, last), SETTINGS_TOGGLE_DEBOUNCE_MS)

(* a faulty variant: only a reading with both coordinates negative is     *)
(* dropped                                                                  *)
IsSpuriousPointBelowZero(p) == p[1] < 0 /\ p[2] < 0

(* the driver artifact guard of handleTouch: p.x == 0 && p.y == 0 *)
IsSpuriousPoint(p) == p[1] = 0 /\ p[2] = 0

(* a faulty variant: the raw point is used as the screen point *)
TouchPointRaw(p) == p

(* now - lastSettingsToggleMs > SETTINGS_TOGGLE_DEBOUNCE_MS *)
SettingsToggleDue(now, last) ==
  Gt32n(Sub32(now, last), SETTINGS_TOGGLE_DEBOUNCE_MS)

(* now - lastColorToggleMs > COLOR_TOGGLE_DEBOUNCE_MS *)
ColorToggleDue(now, last) ==
  Gt32n(Sub32(now, last), COLOR_TOGGLE_DEBOUNCE_MS)

(* the raw point mapped to screen coordinates *)
TouchPoint(p) == << map(p[1], 0, 240, 240, 0), map(p[2], 0, 320, 320, 0) >>

(* handleTouch when ctp.touched() and ctp.getPoint() returned p *)
TouchAt(E, p) ==
  \E now \in Reads(E, clock) :
  LET touchX == TouchPoint(p)[1]
      touchY == TouchPoint(p)[2]
      t == [ route |-> "spurious", p |-> p, x |-> touchX, y |-> touchY,
             now |-> now ]
  IN  IF IsSpuriousPoint(p)
      THEN /\ touch' = t
           /\ clock' = now
           /\ UNCHANGED << rainVars, overlay, clockTextVars, colorVars, settingsVars,
                           debounceVars, calls >>
      ELSE IF isSettingsToggleTouch(touchX, touchY)
      THEN IF SettingsToggleDue(now, lastSettingsToggleMs)
           THEN /\ IF ~settingsActive
                   THEN /\ EnterSettingsMenu(E)
                        /\ clock' = now
                        /\ touch' = [ t EXCEPT !.route = "enterSettings" ]
                   ELSE /\ ExitSettingsMenu(E, now)
                        /\ touch' = [ t EXCEPT !.route = "exitSettings" ]
                /\ lastSettingsToggleMs' = now
                /\ UNCHANGED << lastSettingsButtonMs, lastButton, lastColorToggleMs >>
           ELSE /\ touch' = [ t EXCEPT !.route = "settingsToggleDebounce" ]
                /\ clock' = now
                /\ UNCHANGED << rainVars, overlay, clockTextVars, colorVars,
                                settingsVars, debounceVars, calls >>
      ELSE IF settingsActive
      THEN /\ HandleSettingsTouch(E, t, touchX, touchY)
           /\ UNCHANGED << rainVars, overlay, clockTextVars, colorVars,
                           settingsActive, buttons, lastSettingsToggleMs,
                           lastColorToggleMs >>
      ELSE IF isColorToggleTouch(touchX, touchY)
      THEN IF ColorToggleDue(now, lastColorToggleMs)
           THEN /\ cycleColorScheme
                /\ lastColorToggleMs' = now
                /\ clock' = now
                /\ touch' = [ t EXCEPT !.route = "colorToggle" ]
                /\ UNCHANGED << rainVars, clockTextVars, settingsVars,
                                lastSettingsToggleMs, lastSettingsButtonMs,
                                lastButton, calls >>
           ELSE /\ touch' = [ t EXCEPT !.route = "colorToggleDebounce" ]
                /\ clock' = now
                /\ UNCHANGED << rainVars, overlay, clockTextVars, colorVars,
                                settingsVars, debounceVars, calls >>
      ELSE \E rh \in RtcRead(E, rtc, rtc) : \E rm \in RtcRead(E, rtc, rh) :
             /\ timeText' = updateTimeTextFromClock(rh, rm)
             /\ rtc' = rm
             /\ overlay' = startTimeOverlay(now)
             /\ clock' = now
             /\ calls' = calls \o startTimeOverlayCalls(overlay)
             /\ touch' = [ t EXCEPT !.route = "showClock" ]
             /\ UNCHANGED << rainVars, lastDisplayedMinute, colorVars,
                             settingsVars, debounceVars >>

(* a faulty variant: the overlay is repainted before the rain advances *)
NextHandlerOverlayFirst(h, settings) ==
  IF h = "handleTouch" THEN "checkMinuteTick"
  ELSE IF h = "checkMinuteTick"
       THEN (IF settings THEN "loop" ELSE "updateTimeOverlay")
  ELSE IF h = "updateTimeOverlay" THEN "updateMatrixRain"
  ELSE "loop"

(* a faulty variant: loop() does not return when the settings menu is open *)
NextHandlerIgnoringSettings(h, settings) ==
  IF h = "handleTouch" THEN "checkMinuteTick"
  ELSE IF h = "checkMinuteTick" THEN "updateMatrixRain"
  ELSE IF h = "updateMatrixRain" THEN "updateTimeOverlay"
  ELSE "loop"

(* loop(): the handler that runs after handler h returns; settings is      *)
(* settingsActive when checkMinuteTick returns                              *)
NextHandler(h, settings) ==
  IF h = "handleTouch" THEN "checkMinuteTick"
  ELSE IF h = "checkMinuteTick"
       THEN (IF settings THEN "loop" ELSE "updateMatrixRain")
  ELSE IF h = "updateMatrixRain" THEN "updateTimeOverlay"
  ELSE "loop"

(* handleTouch, the first call of loop() *)
HandleTouch(E) ==
  /\ pc = "handleTouch"
  /\ pc' = NextHandler("handleTouch", settingsActive')
  /\ UNCHANGED << col, adv >>
  /\ \/ /\ touch' = [ NoTouch EXCEPT !.route = "untouched" ]
        /\ UNCHANGED << clock, rainVars, overlay, clockTextVars, colorVars,
                        settingsVars, debounceVars, calls >>
     \/ \E p \in E.touches : TouchAt(E, p)

----------------------------------------------------------------------------
(* checkMinuteTick, and loop()'s return when the settings menu is open *)

(* a faulty variant: every call takes the minute as changed *)
MinuteUnchangedNever(currentMinute, last) == currentMinute < 0

(* the early return of checkMinuteTick *)
MinuteUnchanged(currentMinute, last) == currentMinute = last

CheckMinuteTick(E) ==
  /\ pc = "checkMinuteTick"
  /\ \E r \in RtcRead(E, rtc, rtc) :
       LET currentMinute == r.minute
       IN  IF MinuteUnchanged(currentMinute, lastDisplayedMinute)
           THEN /\ rtc' = r
                /\ UNCHANGED << clock, lastDisplayedMinute, timeText, overlay, calls >>
           ELSE \E rh \in RtcRead(E, rtc, r) : \E rm \in RtcRead(E, rtc, rh) :
                \E now \in Reads(E, clock) :
                  /\ lastDisplayedMinute' = currentMinute
                  /\ timeText' = updateTimeTextFromClock(rh, rm)
                  /\ rtc' = rm
                  /\ overlay' = startTimeOverlay(now)
                  /\ clock' = now
                  /\ calls' = calls \o startTimeOverlayCalls(overlay)
  /\ pc' = NextHandler("checkMinuteTick", settingsActive)
  /\ col' = IF pc' = "updateMatrixRain" THEN NextCol(-1) ELSE col
  /\ UNCHANGED << rainVars, colorVars, settingsVars, debounceVars, touch, adv >>

----------------------------------------------------------------------------
(* updateMatrixRain: one iteration of its column loop.  The iteration of    *)
(* the first tracked column includes the call's millis() (line 1120), kept  *)
(* in adv.at for the iterations that follow.                                *)

(* a faulty variant: the previous head is repainted with a new glyph *)
RainCallsFreshGlyph(active, k, h, prevHead, tailLen, g, m) ==
  clearRainChar(active, k, h - tailLen)
  \o (IF h >= 0 /\ h < NUM_ROWS
      THEN drawRainChar(active, k, h, g[h], m.head) ELSE << >>)
  \o (IF prevHead >= 0 /\ prevHead < NUM_ROWS
      THEN drawRainChar(active, k, prevHead, GLYPH_FIRST, m.bright) ELSE << >>)

(* the calls of an iteration that leaves column k with head h and tail      *)
(* length tailLen, in the order the code issues them; g is the glyph row of *)
(* the column after the head's glyph was stored                             *)
RainCalls(active, k, h, prevHead, tailLen, g, m) ==
  LET brightDist == BrightDist(tailLen)
      darkStartDist == DarkStartDist(tailLen)
      dimRow == h - (brightDist + 1)
      darkRow == h - darkStartDist
  IN  clearRainChar(active, k, h - tailLen)
      \o (IF h >= 0 /\ h < NUM_ROWS
          THEN drawRainChar(active, k, h, g[h], m.head) ELSE << >>)
      \o (IF prevHead >= 0 /\ prevHead < NUM_ROWS
          THEN drawRainChar(active, k, prevHead, g[prevHead], m.bright) ELSE << >>)
      \o (IF dimRow >= 0 /\ dimRow < NUM_ROWS
             /\ h - dimRow < tailLen /\ h - dimRow >= 0 /\ h - dimRow < darkStartDist
          THEN drawRainChar(active, k, dimRow, g[dimRow], m.dim) ELSE << >>)
      \o (IF darkRow >= 0 /\ darkRow < NUM_ROWS
             /\ h - darkRow < tailLen /\ h - darkRow >= darkStartDist
          THEN drawRainChar(active, k, darkRow, g[darkRow], m.dark) ELSE << >>)

(* a faulty variant: every column is due on every call *)
DueOnEveryCall(c, now) == Ge32(now, c.lastUpdateMs)

(* a faulty variant: lastUpdateMs is always set to now *)
CatchUpToNow(c, now) == now

(* a faulty variant: the due check compares now with lastUpdateMs +         *)
(* intervalMs, which is not safe across the wrap of the counter            *)
DueByDeadline(c, now) == Ge32(now, Add32(c.lastUpdateMs, c.intervalMs))

(* the due check: elapsed = now - c.lastUpdateMs is not below intervalMs    *)
Due(c, now) == ~Lt32n(Sub32(now, c.lastUpdateMs), c.intervalMs)

(* the catch-up test after lastUpdateMs += intervalMs                       *)
Snaps(c, now) ==
  Ge32n(Sub32(now, Add32(c.lastUpdateMs, c.intervalMs)), c.intervalMs)

(* lastUpdateMs after the due check passed: advanced by one interval, and   *)
(* set to now when the catch-up test holds                                  *)
CatchUp(c, now) ==
  IF Snaps(c, now) THEN now ELSE Add32(c.lastUpdateMs, c.intervalMs)

(* a faulty variant: the stream respawns while its last cell is on screen *)
LeftScreenEarly(headRow, tailLen) == headRow >= NUM_ROWS + tailLen - 1

(* the respawn test on the incremented head *)
LeftScreen(headRow, tailLen) == headRow >= NUM_ROWS + tailLen

AdvanceColumn(E) ==
  /\ pc = "updateMatrixRain"
  /\ col \in Tracked
  /\ \E now \in (IF col = NextCol(-1) THEN Reads(E, clock) ELSE { adv.at }) :
     LET latest == IF col = NextCol(-1) THEN now ELSE clock
         c == columns[col]
         last == CatchUp(c, now)
         prevHead == c.headRow
         moved == [ c EXCEPT !.lastUpdateMs = last, !.headRow = prevHead + 1 ]
     IN  IF ~Due(c, now)
         THEN /\ adv' = [ NoAdv EXCEPT !.col = col, !.at = now ]
              /\ clock' = latest
              /\ UNCHANGED << columns, glyphs, calls >>
         ELSE IF LeftScreen(moved.headRow, c.tailLength)
         THEN \E tail \in E.tails, jitter \in E.jitters, head \in E.heads :
              \E first \in Reads(E, latest) : \E stamp \in TightReads(E, first, 1) :
                LET fresh == InitColumn(moved, tail, jitter, head, stamp)
                IN  /\ columns' = [ columns EXCEPT ![col] = fresh ]
                    /\ glyphs' = glyphs
                    /\ clock' = stamp
                    /\ calls' = calls \o
                         RainCalls(overlay.active, col, fresh.headRow, prevHead,
                                   fresh.tailLength, glyphs[col], matrix)
                    /\ adv' = [ col |-> col, due |-> TRUE, prevHead |-> prevHead,
                                tailLen |-> fresh.tailLength, respawn |-> TRUE,
                                snap |-> Snaps(c, now), at |-> now ]
         ELSE IF moved.headRow >= 0 /\ moved.headRow < NUM_ROWS
         THEN \E ch \in E.glyphs :
                LET g == [ glyphs[col] EXCEPT ![moved.headRow] = ch ]
                IN  /\ columns' = [ columns EXCEPT ![col] = moved ]
                    /\ glyphs' = [ glyphs EXCEPT ![col] = g ]
                    /\ clock' = latest
                    /\ calls' = calls \o
                         RainCalls(overlay.active, col, moved.headRow, prevHead,
                                   c.tailLength, g, matrix)
                    /\ adv' = [ col |-> col, due |-> TRUE, prevHead |-> prevHead,
                                tailLen |-> c.tailLength, respawn |-> FALSE,
                                snap |-> Snaps(c, now), at |-> now ]
         ELSE /\ columns' = [ columns EXCEPT ![col] = moved ]
              /\ glyphs' = glyphs
              /\ clock' = latest
              /\ calls' = calls \o
                   RainCalls(overlay.active, col, moved.headRow, prevHead,
                             c.tailLength, glyphs[col], matrix)
              /\ adv' = [ col |-> col, due |-> TRUE, prevHead |-> prevHead,
                          tailLen |-> c.tailLength, respawn |-> FALSE,
                          snap |-> Snaps(c, now), at |-> now ]
  /\ col' = NextCol(col)
  /\ pc' = IF NextCol(col) < NUM_COLS THEN "updateMatrixRain"
           ELSE NextHandler("updateMatrixRain", settingsActive)
  /\ UNCHANGED << overlay, clockTextVars, colorVars, settingsVars,
                  debounceVars, touch >>

----------------------------------------------------------------------------
(* updateTimeOverlay, the last call of loop() *)

(* a faulty variant: the expiry is measured from startMs, safe across the   *)
(* wrap of the counter                                                      *)
ExpiredByElapsed(ov, now) ==
  Gt32n(Sub32(now, ov.startMs), TIME_OVERLAY_DURATION_MS)

(* a faulty variant: the overlay expires at its deadline *)
ExpiredAtDeadline(ov, now) == Ge32(now, ov.endMs)

(* the expiry test: now > overlay.endMs *)
Expired(ov, now) == Gt32(now, ov.endMs)

UpdateTimeOverlay(E) ==
  /\ pc = "updateTimeOverlay"
  /\ pc' = NextHandler("updateTimeOverlay", settingsActive)
  /\ IF ~overlay.active
     THEN UNCHANGED << clock, overlay, calls >>
     ELSE \E now \in Reads(E, clock) :
            /\ clock' = now
            /\ IF Expired(overlay, now)
               THEN /\ overlay' = [ overlay EXCEPT !.active = FALSE,
                                                    !.needsDraw = FALSE ]
                    /\ calls' = calls
               ELSE IF ~overlay.needsDraw
               THEN UNCHANGED << overlay, calls >>
               ELSE /\ overlay' = [ overlay EXCEPT !.needsDraw = FALSE ]
                    /\ calls' = Append(calls,
                                       OverlayTextCall(timeText, matrix.bright))
  /\ col' = IF pc' = "updateMatrixRain" THEN NextCol(-1) ELSE col
  /\ UNCHANGED << rainVars, clockTextVars, colorVars, settingsVars,
                  debounceVars, touch, adv >>

----------------------------------------------------------------------------
(* Initial state: the globals as setup() leaves them.  E.boot is the value  *)
(* of setup()'s first millis(), in resetColumn(0); the one of line 661      *)
(* follows initColumns with arithmetic only in between.  setup() is over    *)
(* before the minute set by rtc.setTime has passed.  When ctp.begin()       *)
(* finds no touch controller, setup() shows its error text and stays in     *)
(* its while (1) loop (pc = "halt"): the globals keep their initialisers,   *)
(* the real-time clock is never set and loop() is never called, so no       *)
(* step follows.                                                            *)

(* the globals' initialisers: TimeOverlay overlay = { false, 0, 0, false }, *)
(* the four rain colours (zero-initialised), and the reading of a           *)
(* real-time clock that has not been set (the start of its epoch)           *)
ZeroOverlay ==
  [ active |-> FALSE, startMs |-> ZeroMs, endMs |-> ZeroMs, needsDraw |-> FALSE ]
ZeroColors == [ head |-> 0, bright |-> 0, dim |-> 0, dark |-> 0 ]
RtcAtReset == rtcSetTime(0, 0, 1, 1, 1970)

InitOf(E) ==
  /\ col = NUM_COLS
  /\ \E found \in E.begins :
       IF found
       THEN /\ pc = "loop"
            /\ \E cols \in E.colsets :
                 \E r \in InitColumnsOf(E, [ c \in cols |-> ZeroColumn ], E.boot) :
                 \E start \in TightReads(E, r[3], 1) :
                   /\ columns = r[1]
                   /\ glyphs = r[2]
                   /\ overlay = startTimeOverlay(start)
                   /\ clock = start
            /\ rtc = rtcSetTime(0, 12, 1, 1, 2024)
            /\ timeText = updateTimeTextFromClock(rtcSetTime(0, 12, 1, 1, 2024),
                                                  rtcSetTime(0, 12, 1, 1, 2024))
            /\ lastDisplayedMinute = 0
            /\ currentColorScheme = applyColorScheme(0)[1]
            /\ matrix = applyColorScheme(0)[2]
            /\ calls = << Call("setup", 0, 0, SCREEN_W, SCREEN_H, 0, ILI9341_BLACK),
                          Call("startTimeOverlay", overlayAreaX, overlayAreaY,
                               overlayAreaW, overlayAreaH, 0, matrixBgColor) >>
       ELSE /\ pc = "halt"
            /\ \E cols \in E.colsets :
                 /\ columns = [ c \in cols |-> ZeroColumn ]
                 /\ glyphs = [ c \in cols |-> [ r \in Rows |-> 0 ] ]
            /\ overlay = ZeroOverlay
            /\ clock = E.boot
            /\ rtc = RtcAtReset
            /\ timeText = << 49, 50, 58, 48, 48 >>
            /\ lastDisplayedMinute = -1
            /\ currentColorScheme = 0
            /\ matrix = ZeroColors
            /\ calls = << Call("setup", 0, 0, SCREEN_W, SCREEN_H, 0, ILI9341_BLACK),
                          Call("touchscreenError", 10, 40, 0, 0, 0, ILI9341_GREEN) >>
  /\ settingsActive = FALSE
  /\ settingsHour = 12
  /\ settingsMinute = 0
  /\ buttons = ZeroButtons
  /\ lastSettingsToggleMs = ZeroMs
  /\ lastSettingsButtonMs = ZeroMs
  /\ lastButton = "none"
  /\ lastColorToggleMs = ZeroMs
  /\ touch = NoTouch
  /\ adv = NoAdv

(* the handlers of loop() *)
Program(E) ==
  \/ HandleTouch(E)
  \/ CheckMinuteTick(E)
  \/ AdvanceColumn(E)
  \/ UpdateTimeOverlay(E)

NextOf(E) ==
  \/ Elapse(E)
  \/ RtcAdvance(E)
  \/ Program(E)

(* runs too short for the real-time clock to reach the next minute *)
NextSameMinute(E) ==
  \/ Elapse(E)
  \/ Program(E)

----------------------------------------------------------------------------
(* Input sets and bounds *)

(* An environment names the inputs of a family of runs: the value of        *)
(* setup()'s first millis() (boot), the time the runs are followed for      *)
(* (maxClock), the minute of the day after which the real-time clock is     *)
(* followed no further (rtcLimit), the times from one pass of loop() to the *)
(* next (delays), the raw touch points, the values random() returns         *)
(* (tails, jitters, heads, glyphs for the glyph of a head, prefills for the *)
(* draws of initColumns' glyph loop, each a cycle of values), what          *)
(* ctp.begin() returns (begins), the columns of the array that are          *)
(* tracked (colsets), and the advance of the millisecond counter from one   *)
(* read of millis() to the next: lags between two reads with drawing, a     *)
(* poll of the touch panel or a return to loop() in between, tight between  *)
(* two reads with only arithmetic in between.  The lags are 0 and one       *)
(* value on the grid of the delays, so that the counter stays on that       *)
(* grid.                                                                    *)

(* raw touch points: the (0,0) artifact, the centre of the panel and the    *)
(* settings-toggle corner                                                   *)
SpuriousPoint == << 0, 0 >>
CentrePoint == << 120, 160 >>
SettingsCornerPoint == << 200, 300 >>

(* minute of the day of setup()'s rtc.setTime(0, 0, 12, 1, 1, 2024) *)
BootMinute == 12 * 60

(* Spec: the whole loop with touches, a minute change and overlay expiry.   *)
(* A run is followed for MaxClock ms after setup() and the real-time clock  *)
(* for MaxRtcMinutes minutes.                                               *)
MaxClock == 4100
MaxRtcMinutes == 1

MainEnv ==
  [ boot     |-> ZeroMs,
    maxClock |-> MaxClock,
    rtcLimit |-> BootMinute + MaxRtcMinutes,
    delays   |-> { 250, 3600 },
    touches  |-> { SpuriousPoint, CentrePoint, SettingsCornerPoint },
    tails    |-> { MIN_TAIL_LEN },
    jitters  |-> { -10 },
    heads    |-> { -1 },
    glyphs   |-> { GLYPH_FIRST },
    colsets  |-> { { 11 } },
    lags     |-> { 0, 250 },
    tight    |-> { 0 },
    prefills |-> { << GLYPH_FIRST >> },
    begins   |-> BOOLEAN ]

Init == InitOf(MainEnv)
Next == NextOf(MainEnv)
Spec == Init /\ [][Next]_vars

(* SpecButtons: the settings menu with its four controls pressed, with      *)
(* passes 100 or 200 ms apart.                                              *)
HourUpPoint == << 160, 120 >>
HourDownPoint == << 160, 70 >>
MinuteUpPoint == << 20, 120 >>
MinuteDownPoint == << 20, 70 >>

ButtonsMaxClock == 1200

ButtonsEnv ==
  [ MainEnv EXCEPT
      !.maxClock = ButtonsMaxClock,
      !.rtcLimit = 0,
      !.delays = { 100, 200 },
      !.touches = { SettingsCornerPoint, HourUpPoint, HourDownPoint,
                    MinuteUpPoint, MinuteDownPoint },
      !.lags = { 0, 100 } ]

InitButtons == InitOf(ButtonsEnv)
NextButtons == NextSameMinute(ButtonsEnv)
SpecButtons == InitButtons /\ [][NextButtons]_vars

(* SpecMidnight: the hour stepped up in the settings menu from 12 through   *)
(* 23 to 0, one press per 200 ms pass, and the menu left again.             *)
MidnightMaxClock == 3200

MidnightEnv ==
  [ MainEnv EXCEPT
      !.maxClock = MidnightMaxClock,
      !.rtcLimit = 0,
      !.delays = { 200 },
      !.touches = { SettingsCornerPoint, HourUpPoint },
      !.lags = { 0 } ]

InitMidnight == InitOf(MidnightEnv)
NextMidnight == NextSameMinute(MidnightEnv)
SpecMidnight == InitMidnight /\ [][NextMidnight]_vars

(* SpecColor: touches at the centre and in the colour-toggle corner, until  *)
(* after the overlay has expired.  The corner is reached by a raw point     *)
(* left of the panel's native range 0..240.                                 *)
ColorCornerPoint == << -20, 100 >>

ColorMaxClock == 4500

ColorEnv ==
  [ MainEnv EXCEPT
      !.maxClock = ColorMaxClock,
      !.rtcLimit = 0,
      !.delays = { 300, 3600 },
      !.touches = { CentrePoint, ColorCornerPoint },
      !.lags = { 0, 300 } ]

InitColor == InitOf(ColorEnv)
NextColor == NextSameMinute(ColorEnv)
SpecColor == InitColor /\ [][NextColor]_vars

(* SpecSettingsTouch: the settings menu touched on a control, at the centre *)
(* and in the colour-toggle corner, with passes 300 ms apart.               *)
SettingsTouchMaxClock == 1800

SettingsTouchEnv ==
  [ ButtonsEnv EXCEPT
      !.maxClock = SettingsTouchMaxClock,
      !.delays = { 300 },
      !.touches = { SettingsCornerPoint, ColorCornerPoint, CentrePoint,
                    HourDownPoint },
      !.lags = { 0, 300 } ]

InitSettingsTouch == InitOf(SettingsTouchEnv)
NextSettingsTouch == NextSameMinute(SettingsTouchEnv)
SpecSettingsTouch == InitSettingsTouch /\ [][NextSettingsTouch]_vars

(* SpecRedraw: the touches of SpecColor, and a minute that can change.      *)
RedrawEnv == [ ColorEnv EXCEPT !.rtcLimit = BootMinute + MaxRtcMinutes ]

InitRedraw == InitOf(RedrawEnv)
NextRedraw == NextOf(RedrawEnv)
SpecRedraw == InitRedraw /\ [][NextRedraw]_vars

(* SpecEvents: touches at the centre and in both corners, a minute that     *)
(* can change, and passes 600 or 3600 ms apart, until after an overlay has  *)
(* expired.                                                                 *)
EventsMaxClock == 4800

EventsEnv ==
  [ MainEnv EXCEPT
      !.maxClock = EventsMaxClock,
      !.delays = { 600, 3600 },
      !.touches = { CentrePoint, SettingsCornerPoint, ColorCornerPoint },
      !.lags = { 0, 600 } ]

InitEvents == InitOf(EventsEnv)
NextEvents == NextOf(EventsEnv)
SpecEvents == InitEvents /\ [][NextEvents]_vars

(* SpecNative: the touches of Spec with the (0,0) artifact replaced by the  *)
(* raw point next to it, which maps to the screen point (240, 319), the     *)
(* far end of the sensor's native range.                                    *)
NativeCornerPoint == << 0, 1 >>

NativeEnv ==
  [ MainEnv EXCEPT
      !.touches = { NativeCornerPoint, CentrePoint, SettingsCornerPoint } ]

InitNative == InitOf(NativeEnv)
NextNative == NextOf(NativeEnv)
SpecNative == InitNative /\ [][NextNative]_vars

(* SpecCorners: touches at the centre and in both corners in quick          *)
(* succession, 250 ms or less apart, so that a corner is touched again      *)
(* inside its debounce window.                                              *)
CornersMaxClock == 1500

CornersEnv ==
  [ MainEnv EXCEPT
      !.maxClock = CornersMaxClock,
      !.delays = { 250 },
      !.touches = { SpuriousPoint, CentrePoint, SettingsCornerPoint,
                    ColorCornerPoint } ]

InitCorners == InitOf(CornersEnv)
NextCorners == NextOf(CornersEnv)
SpecCorners == InitCorners /\ [][NextCorners]_vars

(* SpecRain: the life of a stream from setup() to after its respawn, with   *)
(* passes 25 or 100 ms apart and no touch but the (0,0) artifact.           *)
RainMaxClock == 8000

RainEnv ==
  [ boot     |-> ZeroMs,
    maxClock |-> RainMaxClock,
    rtcLimit |-> 0,
    delays   |-> { 25, 100 },
    touches  |-> { SpuriousPoint },
    tails    |-> { MIN_TAIL_LEN, MAX_TAIL_LEN },
    jitters  |-> { -10 },
    heads    |-> { -NUM_ROWS, -1 },
    glyphs   |-> { GLYPH_FIRST },
    colsets  |-> { { startOverlayCol }, { endOverlayCol } },
    lags     |-> { 0, 25 },
    tight    |-> { 0 },
    prefills |-> { << GLYPH_FIRST >> },
    begins   |-> BOOLEAN ]

InitRain == InitOf(RainEnv)
NextRain == NextSameMinute(RainEnv)
SpecRain == InitRain /\ [][NextRain]_vars

(* SpecFade: one stream of every tail length from setup() to after its      *)
(* respawn, in the overlay's first column, with passes 100 ms apart.        *)
FadeMaxClock == 8000

FadeEnv ==
  [ RainEnv EXCEPT
      !.maxClock = FadeMaxClock,
      !.delays = { 100 },
      !.tails = MIN_TAIL_LEN .. MAX_TAIL_LEN,
      !.heads = { -1 },
      !.colsets = { { startOverlayCol } },
      !.lags = { 0 } ]

InitFade == InitOf(FadeEnv)
NextFade == NextSameMinute(FadeEnv)
SpecFade == InitFade /\ [][NextFade]_vars

(* SpecGlyph: streams falling from above the screen into the active         *)
(* overlay, with passes 50 ms apart: runs that track one column, each head  *)
(* glyph the first or the last of the glyph range, and runs that track two  *)
(* columns (GlyphPairEnv).                                                  *)
GlyphMaxClock == 700

GlyphEnv ==
  [ RainEnv EXCEPT
      !.maxClock = GlyphMaxClock,
      !.delays = { 50 },
      !.tails = { MIN_TAIL_LEN },
      !.heads = { -1 },
      !.glyphs = { GLYPH_FIRST, GLYPH_END - 1 },
      !.colsets = { { startOverlayCol } },
      !.lags = { 0 },
      !.prefills = { << GLYPH_FIRST >>, << GLYPH_END - 1 >>,
                     << GLYPH_FIRST, GLYPH_END - 1 >>,
                     << GLYPH_END - 1, GLYPH_FIRST, GLYPH_FIRST >> } ]

(* the runs of SpecGlyph that track two columns, the first and the last of  *)
(* the overlay: the grid is prefilled with the first glyph of the range and *)
(* every head stores the last, and the two streams start at the same row or *)
(* two rows apart, so that at the rows between their heads the two columns  *)
(* hold different glyphs                                                    *)
GlyphPairEnv ==
  [ GlyphEnv EXCEPT
      !.heads = { -3, -1 },
      !.glyphs = { GLYPH_END - 1 },
      !.colsets = { { startOverlayCol, endOverlayCol } },
      !.prefills = { << GLYPH_FIRST >> } ]

InitGlyph == InitOf(GlyphEnv) \/ InitOf(GlyphPairEnv)
NextGlyph ==
  NextSameMinute(IF Tracked = { startOverlayCol } THEN GlyphEnv ELSE GlyphPairEnv)
SpecGlyph == InitGlyph /\ [][NextGlyph]_vars

(* SpecWrap: the passes around the wrap of the millisecond counter.  The    *)
(* run starts 190 ms before millis() returns to 0, in a state in which the  *)
(* stream has just been set up and the overlay has just been activated, and *)
(* goes on with passes 25 or 100 ms apart and touches at the centre.  In    *)
(* these runs a read of millis() returns the value of the read before it   *)
(* or one 20 ms later, the time a handler can take to draw, so that         *)
(* updateTimeOverlay can read a later millis() than updateMatrixRain.       *)
WrapBoot == << Half - 1, Half - 190 >>
WrapMaxClock == 400
RainDrawMs == 20

WrapEnv ==
  [ RainEnv EXCEPT
      !.boot = WrapBoot,
      !.maxClock = WrapMaxClock,
      !.touches = { SpuriousPoint, CentrePoint },
      !.tails = { MIN_TAIL_LEN },
      !.heads = { -1 },
      !.colsets = { { startOverlayCol } },
      !.lags = { 0, RainDrawMs } ]

InitWrap == InitOf(WrapEnv)
NextWrap == NextSameMinute(WrapEnv)
SpecWrap == InitWrap /\ [][NextWrap]_vars

(* SpecLive: loop() running forever in Idle, through wrap after wrap of the *)
(* millisecond counter.  To keep the counter's values few, the passes are   *)
(* 2^26 ms apart, or a pass follows 25 ms after one at a multiple of 2^26   *)
(* and the next one comes at the following multiple; the counter then takes *)
(* 128 values and is back at 0 after 64 long gaps.  loop() is called again  *)
(* whenever it returns, so every step that can be taken is taken.           *)
LiveGap == 1024 * Half
LiveDelays(now) ==
  IF now[1] % 1024 = 0 /\ now[2] = 0 THEN { 25, LiveGap } ELSE { LiveGap - 25 }

LiveEnv ==
  [ RainEnv EXCEPT
      !.tails = { MIN_TAIL_LEN, MAX_TAIL_LEN },
      !.heads = { -1 },
      !.colsets = { { startOverlayCol } },
      !.lags = { 0 } ]

(* the next pass of loop() starts, with no end to the run *)
ElapseLive ==
  /\ pc = "loop"
  /\ \E d \in LiveDelays(clock) : clock' = Add32(clock, d)
  /\ pc' = "handleTouch"
  /\ touch' = NoTouch
  /\ adv' = NoAdv
  /\ calls' = << >>
  /\ UNCHANGED << col, rainVars, overlay, clockTextVars, colorVars, settingsVars,
                  debounceVars >>

InitLive == InitOf(LiveEnv)
NextLive ==
  \/ ElapseLive
  \/ Program(LiveEnv)
SpecLive == InitLive /\ [][NextLive]_vars /\ WF_vars(NextLive)

(* SpecMenu: streams that respawn and are re-initialised by leaving the     *)
(* settings menu, with passes 50 or 600 ms apart.                           *)
MenuMaxClock == 2900

MenuEnv ==
  [ boot     |-> ZeroMs,
    maxClock |-> MenuMaxClock,
    rtcLimit |-> 0,
    delays   |-> { 50, 600 },
    touches  |-> { SettingsCornerPoint },
    tails    |-> { MIN_TAIL_LEN, MAX_TAIL_LEN },
    jitters  |-> { -JITTER_MAX, JITTER_MAX },
    heads    |-> { -1 },
    glyphs   |-> { GLYPH_FIRST },
    colsets  |-> { { 11 } },
    lags     |-> { 0 },
    tight    |-> { 0 },
    prefills |-> { << GLYPH_FIRST >> },
    begins   |-> BOOLEAN ]

InitMenu == InitOf(MenuEnv)
NextMenu == NextSameMinute(MenuEnv)
SpecMenu == InitMenu /\ [][NextMenu]_vars

----------------------------------------------------------------------------
(* Properties *)

(* a step's call of updateTimeTextFromClock wrote the text of the hour the  *)
(* real-time clock held before or after the step and of the minute it       *)
(* holds after it                                                           *)
TextOfReads ==
  \E rh \in { rtc, rtc' } : timeText' = updateTimeTextFromClock(rh, rtc')

(* C1: in every state after initColumns (after setup(), after a respawn and *)
(* after leaving the settings menu) every column has a tailLength in        *)
(* MIN_TAIL_LEN..MAX_TAIL_LEN and an intervalMs in 20..175.  (A setup()     *)
(* that halts for want of a touch controller never calls initColumns.)      *)
C1_TailAndIntervalInRange ==
  pc # "halt" => \A c \in Tracked :
    /\ columns[c].tailLength >= MIN_TAIL_LEN
    /\ columns[c].tailLength <= MAX_TAIL_LEN
    /\ columns[c].intervalMs >= 20
    /\ columns[c].intervalMs <= 175

(* a stream re-initialised by leaving the settings menu has respawned with  *)
(* the longest tail and the largest interval                                *)
C1_Witness ==
  /\ lastSettingsToggleMs # ZeroMs
  /\ ~settingsActive
  /\ adv.respawn
  /\ columns[adv.col].tailLength = MAX_TAIL_LEN
  /\ columns[adv.col].intervalMs = 175

(* the column a step of updateMatrixRain visits is due at the call's now,   *)
(* adv'.at, and respawns, read off the state before the step                *)
VisitDue ==
  /\ pc = "updateMatrixRain"
  /\ Ge32n(Sub32(adv'.at, columns[col].lastUpdateMs), columns[col].intervalMs)
VisitRespawns ==
  columns[col].headRow + 1 >= NUM_ROWS + columns[col].tailLength

(* C2: an advance whose increment takes headRow to NUM_ROWS + tailLength or *)
(* beyond leaves the column with headRow in -NUM_ROWS..-1, a tailLength in  *)
(* MIN_TAIL_LEN..MAX_TAIL_LEN and an intervalMs of at least 20; no state    *)
(* has a column with headRow >= NUM_ROWS + tailLength.                      *)
C2_RespawnAboveScreen ==
  /\ [](\A c \in Tracked :
          columns[c].headRow < NUM_ROWS + columns[c].tailLength)
  /\ [][ (VisitDue /\ VisitRespawns) =>
           /\ columns'[col].headRow >= -NUM_ROWS
           /\ columns'[col].headRow <= -1
           /\ columns'[col].tailLength >= MIN_TAIL_LEN
           /\ columns'[col].tailLength <= MAX_TAIL_LEN
           /\ columns'[col].intervalMs >= 20 ]_vars

(* a stream with the longest tail has just respawned from the last row it   *)
(* can reach                                                                *)
C2_Witness ==
  /\ adv.respawn
  /\ adv.prevHead = NUM_ROWS + MAX_TAIL_LEN - 1
  /\ columns[adv.col].headRow < 0

(* C3: an advance that does not respawn adds one to headRow, keeps          *)
(* tailLength and intervalMs, and adds intervalMs to lastUpdateMs, unless   *)
(* the column then still lags now by an interval or more, in which case     *)
(* lastUpdateMs is now.                                                     *)
C3_AdvanceOneRow ==
  [][ (VisitDue /\ ~VisitRespawns) =>
        LET c == columns[col]
            stepped == Add32(c.lastUpdateMs, c.intervalMs)
        IN  /\ columns'[col].headRow = c.headRow + 1
            /\ columns'[col].tailLength = c.tailLength
            /\ columns'[col].intervalMs = c.intervalMs
            /\ columns'[col].lastUpdateMs =
                 IF Ge32n(Sub32(adv'.at, stepped), c.intervalMs)
                 THEN adv'.at ELSE stepped ]_vars

(* a column advanced late, and its lastUpdateMs moved by one interval to a  *)
(* time before now                                                          *)
C3_Witness ==
  /\ adv.due
  /\ ~adv.respawn
  /\ ~adv.snap
  /\ columns[adv.col].headRow = adv.prevHead + 1
  /\ columns[adv.col].lastUpdateMs # adv.at

(* C4: one call of updateMatrixRain visits each column once and moves its   *)
(* headRow down by at most one row; a column that is not due keeps its      *)
(* state and its glyphs, and nothing is drawn for it.                       *)
C4_AtMostOneRowPerCall ==
  [][ pc = "updateMatrixRain" =>
        /\ col' > col
        /\ columns'[col].headRow <= columns[col].headRow + 1
        /\ \A k \in Tracked \ { col } : columns'[k] = columns[k]
        /\ ~VisitDue => /\ columns' = columns
                        /\ glyphs' = glyphs
                        /\ calls' = calls ]_vars

(* a column that fell two or more intervals behind has advanced one row *)
C4_Witness ==
  /\ adv.due
  /\ adv.snap
  /\ ~adv.respawn
  /\ columns[adv.col].headRow = adv.prevHead + 1

(* the pixels of a drawing call meet the rectangle cached for the overlay *)
MeetsOverlay(d) ==
  /\ d.x < overlayAreaX + overlayAreaW
  /\ d.x + d.w > overlayAreaX
  /\ d.y < overlayAreaY + overlayAreaH
  /\ d.y + d.h > overlayAreaY

(* C5: while the overlay is active, no call of drawRainChar or              *)
(* clearRainChar (erase, head, bright, dim or dark step) touches a cell     *)
(* that intersects the overlay rectangle.                                   *)
C5_OverlayOccludesRain ==
  overlay.active =>
    \A i \in 1 .. Len(calls) :
      calls[i].by \in { "drawRainChar", "clearRainChar" } =>
        ~MeetsOverlay(calls[i])

(* under an active overlay the head, bright and dim cells of a stream were  *)
(* skipped and only its dark and erased cells, above the overlay, drawn     *)
C5_Witness ==
  /\ overlay.active
  /\ adv.due
  /\ adv.col = startOverlayCol
  /\ columns[adv.col].headRow = 17
  /\ columns[adv.col].tailLength = MIN_TAIL_LEN
  /\ Len(calls) = 2
  /\ calls[1].by = "clearRainChar"
  /\ calls[2].by = "drawRainChar"

(* C6: after every pass of loop() outside the settings menu, the overlay    *)
(* last activated at startMs is active when now <= startMs + 3600 and is    *)
(* inactive, with needsDraw false, when now > startMs + 3600; expiry never  *)
(* deactivates it earlier.                                                  *)
C6_OverlayExpiry ==
  (pc = "loop" /\ ~settingsActive) =>
    /\ overlay.endMs = Add32(overlay.startMs, 3600)
    /\ overlay.active <=> ~Gt32(clock, overlay.endMs)
    /\ ~overlay.active => ~overlay.needsDraw

(* an overlay a touch activated is still active at the end of the pass that *)
(* runs exactly 3600 ms later                                               *)
C6_Witness ==
  /\ pc = "loop"
  /\ ~settingsActive
  /\ overlay.active
  /\ overlay.startMs # ZeroMs
  /\ clock = Add32(overlay.startMs, 3600)

(* the overlay startTimeOverlay(now) leaves, and the fill of its rectangle *)
Activated(ov, now) ==
  /\ ov.active
  /\ ov.startMs = now
  /\ ov.endMs = Add32(now, 3600)
  /\ ov.needsDraw
IsOverlayFill(d) ==
  /\ d.by = "startTimeOverlay"
  /\ << d.x, d.y, d.w, d.h >> =
       << overlayAreaX, overlayAreaY, overlayAreaW, overlayAreaH >>
  /\ d.color = matrixBgColor

(* C7: every call of startTimeOverlay(now), from handleTouch or from        *)
(* checkMinuteTick, fills the overlay rectangle with the background colour  *)
(* exactly when the overlay was not active, and leaves active = true,       *)
(* startMs = now, endMs = now + 3600 and needsDraw = true.                  *)
C7_StartTimeOverlay ==
  [][ ( \/ pc = "handleTouch" /\ touch'.route = "showClock"
        \/ pc = "checkMinuteTick" /\ lastDisplayedMinute' # lastDisplayedMinute ) =>
        /\ Activated(overlay', IF pc = "handleTouch" THEN touch'.now ELSE clock')
        /\ IF overlay.active
           THEN calls' = calls
           ELSE /\ Len(calls') = Len(calls) + 1
                /\ SubSeq(calls', 1, Len(calls)) = calls
                /\ IsOverlayFill(calls'[Len(calls')]) ]_vars

(* a touch re-activated an active overlay: the deadline moved and nothing   *)
(* was filled                                                               *)
C7_Witness ==
  /\ pc = "checkMinuteTick"
  /\ touch.route = "showClock"
  /\ calls = << >>
  /\ overlay.startMs = touch.now
  /\ overlay.endMs = Add32(touch.now, 3600)
  /\ touch.now # ZeroMs

(* the part of a pass a drawing call belongs to: 1 touch routing and the    *)
(* minute check, 2 rain, 3 overlay text                                     *)
Phase(d) ==
  IF d.by \in { "drawRainChar", "clearRainChar" } THEN 2
  ELSE IF d.by = "updateTimeOverlay" THEN 3
  ELSE 1

(* C8: within a pass the draws of touch routing come before the rain's and  *)
(* the rain's before the overlay text, and nothing is drawn after the       *)
(* overlay text.                                                            *)
C8_DrawOrder ==
  \A i, j \in 1 .. Len(calls) :
    i < j => /\ Phase(calls[i]) <= Phase(calls[j])
             /\ Phase(calls[i]) # 3

(* a pass in which a touch filled the overlay rectangle, the rain drew and  *)
(* the overlay text was rendered last                                       *)
C8_Witness ==
  /\ pc = "loop"
  /\ Len(calls) >= 3
  /\ touch.route = "showClock"
  /\ IsOverlayFill(calls[1])
  /\ Phase(calls[2]) = 2
  /\ Phase(calls[Len(calls)]) = 3

(* the screen point of the raw point p lies in the settings-toggle corner / *)
(* in the colour-toggle corner                                              *)
InSettingsCorner(p) == 240 - p[1] <= 60 /\ 320 - p[2] <= 60
InColorCorner(p) == 240 - p[1] >= 320 - 60 /\ 320 - p[2] >= 240 - 60

(* the step is a handleTouch that read a touch other than (0,0) while the   *)
(* settings menu was closed                                                 *)
IdleTouch ==
  /\ pc = "handleTouch"
  /\ touch'.route # "untouched"
  /\ touch'.p # << 0, 0 >>
  /\ ~settingsActive

(* C9 as stated: every such touch that neither toggles the settings menu    *)
(* nor changes the colour scheme refreshes the clock text and activates the *)
(* overlay.                                                                 *)
C9_AnyOtherTouchShowsClock ==
  [][ ( /\ IdleTouch
        /\ settingsActive' = settingsActive
        /\ currentColorScheme' = currentColorScheme ) =>
        /\ Activated(overlay', touch'.now)
        /\ TextOfReads ]_vars

(* C9 amended: such a touch outside both corner regions refreshes the clock *)
(* text and activates the overlay; a touch inside a corner region that      *)
(* neither toggles the menu nor changes the scheme changes nothing.         *)
C9_TouchOutsideCornersShowsClock ==
  [][ IdleTouch =>
        IF InSettingsCorner(touch'.p) \/ InColorCorner(touch'.p)
        THEN ( /\ settingsActive' = settingsActive
               /\ currentColorScheme' = currentColorScheme ) =>
               UNCHANGED << overlay, timeText, rtc, columns, glyphs, calls,
                            matrix, lastDisplayedMinute, debounceVars >>
        ELSE /\ Activated(overlay', touch'.now)
             /\ TextOfReads
             /\ UNCHANGED << settingsActive, currentColorScheme >> ]_vars

(* after the settings menu had been opened and closed, a touch held in the  *)
(* colour-toggle corner 250 ms after it changed the scheme left the         *)
(* scheme, the overlay's deadline and its drawn text alone                  *)
C9_Witness ==
  /\ pc = "checkMinuteTick"
  /\ touch.p = ColorCornerPoint
  /\ touch.route = "colorToggleDebounce"
  /\ ~settingsActive
  /\ lastSettingsToggleMs # ZeroMs
  /\ currentColorScheme = 1
  /\ Sub32(touch.now, lastColorToggleMs) = U32Of(250)
  /\ overlay.startMs # touch.now
  /\ ~overlay.needsDraw

(* C10: a touch in the settings-toggle corner flips settingsActive exactly  *)
(* when more than 250 ms have passed since lastSettingsToggleMs, which is   *)
(* the time of the last flip; nothing else flips it.                        *)
C10_SettingsToggleDebounce ==
  [][ LET flips == settingsActive' # settingsActive
          elapsed == Gt32n(Sub32(touch'.now, lastSettingsToggleMs), 250)
      IN  /\ ( /\ pc = "handleTouch"
               /\ touch'.route # "untouched"
               /\ touch'.p # << 0, 0 >>
               /\ InSettingsCorner(touch'.p) ) => (flips <=> elapsed)
          /\ flips => /\ pc = "handleTouch"
                      /\ InSettingsCorner(touch'.p)
                      /\ elapsed
                      /\ lastSettingsToggleMs' = touch'.now
          /\ lastSettingsToggleMs' # lastSettingsToggleMs => flips ]_vars

(* a touch still held in the corner exactly 250 ms after it opened the      *)
(* settings menu did not close it                                           *)
C10_Witness ==
  /\ pc \in { "checkMinuteTick", "loop" }
  /\ touch.route = "settingsToggleDebounce"
  /\ settingsActive
  /\ lastSettingsToggleMs # ZeroMs
  /\ Sub32(touch.now, lastSettingsToggleMs) = U32Of(250)

(* C11: the step that leaves the settings menu sets the time source to      *)
(* settingsHour:settingsMinute with day, month and year unchanged, sets     *)
(* lastDisplayedMinute to settingsMinute, re-initialises every column with  *)
(* a headRow in -NUM_ROWS..-1 and leaves the overlay active with needsDraw  *)
(* set and endMs = now + 3600, now the millis() exitSettingsMenu reads      *)
(* last; the columns are stamped between handleTouch's millis() and that    *)
(* one; the checkMinuteTick of that pass then finds the minute unchanged.   *)
C11_ExitCommitsSettings ==
  /\ []( (pc = "checkMinuteTick" /\ touch.route = "exitSettings") =>
           rtc.minute = lastDisplayedMinute )
  /\ [][ (settingsActive /\ ~settingsActive') =>
           /\ rtc'.hour = settingsHour
           /\ rtc'.minute = settingsMinute
           /\ rtc'.day = rtc.day
           /\ rtc'.month = rtc.month
           /\ rtc'.year = rtc.year
           /\ lastDisplayedMinute' = settingsMinute
           /\ \A c \in Tracked :
                /\ columns'[c].headRow >= -NUM_ROWS
                /\ columns'[c].headRow <= -1
                /\ Sub32(columns'[c].lastUpdateMs, touch'.now)[1] = 0
                /\ Sub32(clock', columns'[c].lastUpdateMs)[1] = 0
           /\ overlay'.active
           /\ overlay'.needsDraw
           /\ overlay'.startMs = clock'
           /\ overlay'.endMs = Add32(clock', 3600) ]_vars

(* the settings menu was left with both the hour and the minute edited *)
C11_Witness ==
  /\ pc = "checkMinuteTick"
  /\ touch.route = "exitSettings"
  /\ rtc.hour = settingsHour
  /\ rtc.minute = settingsMinute
  /\ rtc.hour # 12
  /\ rtc.minute # 0
  /\ rtc.hour # rtc.minute

(* the settings control under the screen point of the raw point p *)
ControlAt(p) ==
  LET x == 240 - p[1]
      y == 320 - p[2]
      in(b) == x >= b.x /\ x <= b.x + b.w /\ y >= b.y /\ y <= b.y + b.h
  IN  IF in(buttons.hourUp) THEN "hourUp"
      ELSE IF in(buttons.hourDown) THEN "hourDown"
      ELSE IF in(buttons.minuteUp) THEN "minuteUp"
      ELSE IF in(buttons.minuteDown) THEN "minuteDown"
      ELSE "none"

(* the step is a handleTouch in the settings menu that read a touch on one  *)
(* of the four controls; the press is accepted when the step stamps it with *)
(* the millis() of handleSettingsTouch, the last read of the step           *)
ControlTouch ==
  /\ pc = "handleTouch"
  /\ settingsActive
  /\ touch'.route # "untouched"
  /\ ~InSettingsCorner(touch'.p)
  /\ ControlAt(touch'.p) # "none"
PressAccepted ==
  /\ lastSettingsButtonMs' = clock'
  /\ lastButton' = ControlAt(touch'.p)
  /\ settingsHour' = AdjustHour(ControlAt(touch'.p), settingsHour)
  /\ settingsMinute' = AdjustMinute(ControlAt(touch'.p), settingsMinute)

(* C12 as stated: a press on a control is accepted when the press last      *)
(* accepted was on a different control, however recent that one was.        *)
C12_ControlsDebouncedIndependently ==
  [][ (ControlTouch /\ lastButton # ControlAt(touch'.p)) => PressAccepted ]_vars

(* C12 amended: the four controls share one debounce window; a press on any *)
(* control is accepted exactly when 200 ms or more have passed since the    *)
(* press last accepted on any control, and is otherwise ignored.            *)
C12_ControlsShareDebounce ==
  [][ ControlTouch =>
        IF Lt32n(Sub32(clock', lastSettingsButtonMs), 200)
        THEN UNCHANGED << settingsHour, settingsMinute, lastSettingsButtonMs,
                          lastButton, calls >>
        ELSE PressAccepted ]_vars

(* a press on one control 100 ms after an accepted press on another control *)
(* was ignored                                                              *)
C12_Witness ==
  /\ pc = "checkMinuteTick"
  /\ touch.route = "buttonDebounce"
  /\ ControlAt(touch.p) # "none"
  /\ lastButton # "none"
  /\ lastButton # ControlAt(touch.p)
  /\ Sub32(clock, lastSettingsButtonMs) = U32Of(100)

(* C13 as stated: while the settings menu is open, checkMinuteTick neither  *)
(* changes overlay.active, overlay.endMs or overlay.needsDraw nor fills the *)
(* overlay rectangle, whatever the time source's minute.                    *)
C13_MinuteTickSuppressedInSettings ==
  [][ (pc = "checkMinuteTick" /\ settingsActive) =>
        /\ overlay'.active = overlay.active
        /\ overlay'.endMs = overlay.endMs
        /\ overlay'.needsDraw = overlay.needsDraw
        /\ calls' = calls ]_vars

(* with the settings menu open over an expired overlay, the minute check    *)
(* has filled the overlay rectangle and activated the overlay               *)
C13_Witness ==
  /\ pc = "loop"
  /\ settingsActive
  /\ overlay.active
  /\ overlay.startMs = clock
  /\ Len(calls) >= 1
  /\ IsOverlayFill(calls[Len(calls)])

(* C14: a step taken with the settings menu open before and after it        *)
(* changes no column state and no glyph, and draws no rain cell and no      *)
(* overlay text; so does every pass that starts and ends in the menu.       *)
C14_RainAndOverlaySuppressedInSettings ==
  [][ (settingsActive /\ settingsActive') =>
        /\ columns' = columns
        /\ glyphs' = glyphs
        /\ \A i \in 1 .. Len(calls') : Phase(calls'[i]) = 1 ]_vars

(* a pass in the settings menu has ended with a column overdue and an       *)
(* overlay waiting for its text, and nothing was drawn                      *)
C14_Witness ==
  /\ pc = "loop"
  /\ settingsActive
  /\ touch.route = "settingsToggleDebounce"
  /\ \E c \in Tracked :
       Ge32n(Sub32(clock, columns[c].lastUpdateMs), columns[c].intervalMs)
  /\ overlay.active
  /\ overlay.needsDraw
  /\ calls = << >>

(* the four controls on every in-range value: '+' and '-' step by one and   *)
(* wrap at the ends, and undo each other                                    *)
ControlsWrap ==
  /\ \A h \in 0 .. 23 :
       /\ AdjustHour("hourUp", h) = (IF h = 23 THEN 0 ELSE h + 1)
       /\ AdjustHour("hourDown", h) = (IF h = 0 THEN 23 ELSE h - 1)
       /\ AdjustHour("hourDown", AdjustHour("hourUp", h)) = h
       /\ AdjustHour("hourUp", AdjustHour("hourDown", h)) = h
  /\ \A m \in 0 .. 59 :
       /\ AdjustMinute("minuteUp", m) = (IF m = 59 THEN 0 ELSE m + 1)
       /\ AdjustMinute("minuteDown", m) = (IF m = 0 THEN 59 ELSE m - 1)
       /\ AdjustMinute("minuteDown", AdjustMinute("minuteUp", m)) = m
       /\ AdjustMinute("minuteUp", AdjustMinute("minuteDown", m)) = m

(* C15: settingsHour stays in 0..23 and settingsMinute in 0..59; a press    *)
(* changes only the field of its control, by one step with hour+ taking 23  *)
(* to 0, hour- 0 to 23, minute+ 59 to 0 and minute- 0 to 59, and '+' then   *)
(* '-' (or '-' then '+') on one field restores its value.                   *)
C15_SettingsFieldsWrap ==
  /\ []( /\ settingsHour \in 0 .. 23
         /\ settingsMinute \in 0 .. 59
         /\ ControlsWrap )
  /\ [][ (settingsActive /\ settingsActive') =>
           LET k == ControlAt(touch'.p)
               h == settingsHour
               m == settingsMinute
           IN  /\ settingsHour' # h =>
                    /\ settingsMinute' = m
                    /\ \/ k = "hourUp" /\ settingsHour' = (IF h = 23 THEN 0 ELSE h + 1)
                       \/ k = "hourDown" /\ settingsHour' = (IF h = 0 THEN 23 ELSE h - 1)
               /\ settingsMinute' # m =>
                    /\ settingsHour' = h
                    /\ \/ k = "minuteUp" /\ settingsMinute' = (IF m = 59 THEN 0 ELSE m + 1)
                       \/ k = "minuteDown" /\ settingsMinute' = (IF m = 0 THEN 59 ELSE m - 1)
     ]_vars

(* minute+ has taken the minute from 59, reached by minute- from 0, to 0 *)
C15_Witness ==
  /\ pc = "checkMinuteTick"
  /\ settingsActive
  /\ touch.route = "minuteUp"
  /\ settingsMinute = 0
  /\ rtc.minute = 0

(* the array colorSchemes as the program holds it: filled by                *)
(* initColorSchemes in setup(), zero when setup() halted before that        *)
ColorSchemesNow ==
  IF pc = "halt" THEN [ i \in 1 .. NUM_COLOR_SCHEMES |-> ZeroColors ]
  ELSE colorSchemes

(* C16: currentColorScheme is always in 0..4 and the four rain colours are  *)
(* the entries of colorSchemes[currentColorScheme]; the scheme changes only *)
(* by a touch in the colour-toggle corner, to (currentColorScheme + 1) mod  *)
(* 5, so five changes lead back to the scheme they started from.            *)
C16_ColorSchemeCycles ==
  /\ []( /\ currentColorScheme \in 0 .. 4
         /\ matrix.head = ColorSchemesNow[currentColorScheme + 1].head
         /\ matrix.bright = ColorSchemesNow[currentColorScheme + 1].bright
         /\ matrix.dim = ColorSchemesNow[currentColorScheme + 1].dim
         /\ matrix.dark = ColorSchemesNow[currentColorScheme + 1].dark )
  /\ [][ (currentColorScheme' # currentColorScheme \/ matrix' # matrix) =>
           /\ pc = "handleTouch"
           /\ InColorCorner(touch'.p)
           /\ currentColorScheme' = (currentColorScheme + 1) % 5 ]_vars

(* the fifth change of the colour scheme has led back to scheme 0 *)
C16_Witness ==
  /\ pc = "checkMinuteTick"
  /\ touch.route = "colorToggle"
  /\ currentColorScheme = 0
  /\ matrix.bright = ILI9341_GREEN

(* the value a pair of ASCII digits spells *)
DigitsValue(a, b) == 10 * (a - 48) + (b - 48)

(* text spells HH:MM for hour h and minute m of the time source: five      *)
(* characters, a colon in the middle, two decimal digits on either side,   *)
(* the minute as it is and the hour as it is except that 0 is shown as 12  *)
SpellsClockText(text, h, m) ==
  /\ Len(text) = 5
  /\ text[3] = 58
  /\ \A i \in { 1, 2, 4, 5 } : text[i] \in 48 .. 57
  /\ DigitsValue(text[1], text[2]) = (IF h = 0 THEN 12 ELSE h)
  /\ DigitsValue(text[4], text[5]) = m

(* the formatting over every hour and minute of the day, hour and minute   *)
(* read apart                                                               *)
ClockTextOfEveryTime ==
  /\ \A h \in 0 .. 23 : \A m \in 0 .. 59 :
       LET text == updateTimeTextFromClock([ hour |-> h, minute |-> 0 ],
                                            [ hour |-> 0, minute |-> m ])
       IN  /\ SpellsClockText(text, h, m)
           /\ << text[1], text[2] >> # << 48, 48 >>
  /\ updateTimeTextFromClock([ hour |-> 0, minute |-> 5 ],
                             [ hour |-> 0, minute |-> 5 ])
       = << 49, 50, 58, 48, 53 >>
  /\ updateTimeTextFromClock([ hour |-> 13, minute |-> 0 ],
                             [ hour |-> 13, minute |-> 0 ])
       = << 49, 51, 58, 48, 48 >>

(* C17: updateTimeTextFromClock writes HH:MM, MM the minute of the time    *)
(* source padded to two digits, HH 12 for hour 0 and else the 24-hour hour *)
(* padded to two digits; the text never shows hour 00.  Whenever the       *)
(* program rewrites timeText, the new text spells the time source's time.  *)
C17_ClockText ==
  /\ [](ClockTextOfEveryTime /\ << timeText[1], timeText[2] >> # << 48, 48 >>)
  /\ [][ timeText' # timeText =>
           \E rh \in { rtc, rtc' } :
             SpellsClockText(timeText', rh.hour, rtc'.minute) ]_vars

(* the menu has been left with the hour set to 0 and the text reads 12:00 *)
C17_Witness ==
  /\ pc = "checkMinuteTick"
  /\ touch.route = "exitSettings"
  /\ rtc.hour = 0
  /\ timeText = << 49, 50, 58, 48, 48 >>

(* the larger and the smaller of two integers *)
Larger(a, b) == IF a >= b THEN a ELSE b
Smaller(a, b) == IF a <= b THEN a ELSE b

(* the fade boundaries of every tail length random(MIN_TAIL_LEN,            *)
(* MAX_TAIL_LEN + 1) yields: on these the clamps of updateMatrixRain give   *)
(* max(1, min(t-1, t/5)) and max(brightDist+2, min(t-1, 4t/5))              *)
FadeDistancesOfEveryTail ==
  /\ \A t \in MIN_TAIL_LEN .. MAX_TAIL_LEN :
       /\ BrightDist(t) = Larger(1, Smaller(t - 1, t \div 5))
       /\ DarkStartDist(t) =
            Larger(BrightDist(t) + 2, Smaller(t - 1, (4 * t) \div 5))
       /\ 1 < BrightDist(t) + 1
       /\ BrightDist(t) + 1 < DarkStartDist(t)
       /\ DarkStartDist(t) < t
  /\ BrightDist(20) + 1 = 5
  /\ DarkStartDist(20) = 16

(* the cell of column k at row r is on screen and not under the overlay *)
Shown(k, r) ==
  /\ r >= 0
  /\ r < NUM_ROWS
  /\ ~isOverlayArea(overlay.active, k, r * CHAR_H, CHAR_H)

(* C18: for every tailLength t in MIN_TAIL_LEN..MAX_TAIL_LEN, brightDist is  *)
(* max(1, min(t-1, t/5)), darkStartDist is max(brightDist+2, min(t-1,       *)
(* 4t/5)) and 1 < brightDist+1 < darkStartDist < t (5 and 16 for t = 20).   *)
(* An advance that does not respawn erases the cell t rows behind the new   *)
(* head, repaints the cell brightDist+1 rows behind it in the dim colour    *)
(* and the cell darkStartDist rows behind it in the dark colour, each       *)
(* exactly when that cell is on screen and not under the overlay, and no    *)
(* two calls of the advance touch the same row.                             *)
C18_FadeDistances ==
  /\ []FadeDistancesOfEveryTail
  /\ [][ (VisitDue /\ ~VisitRespawns) =>
           LET t == columns[col].tailLength
               h == columns[col].headRow + 1
               b == BrightDist(t)
               d == DarkStartDist(t)
               new == SubSeq(calls', Len(calls) + 1, Len(calls'))
               Erased(r) ==
                 \E i \in DOMAIN new :
                   /\ new[i].by = "clearRainChar"
                   /\ new[i].y = r * CHAR_H
               Painted(r, color) ==
                 \E i \in DOMAIN new :
                   /\ new[i].by = "drawRainChar"
                   /\ new[i].y = r * CHAR_H
                   /\ new[i].color = color
                   /\ new[i].what = glyphs'[col][r]
           IN  /\ \A i \in DOMAIN new :
                    /\ new[i].x = col * CHAR_W
                    /\ new[i].y \in { (h - t) * CHAR_H, h * CHAR_H,
                                      (h - 1) * CHAR_H, (h - (b + 1)) * CHAR_H,
                                      (h - d) * CHAR_H }
               /\ Erased(h - t) <=> Shown(col, h - t)
               /\ Painted(h - (b + 1), matrix.dim) <=> Shown(col, h - (b + 1))
               /\ Painted(h - d, matrix.dark) <=> Shown(col, h - d)
               /\ \A i, j \in DOMAIN new : i # j => new[i].y # new[j].y ]_vars

(* a stream with a tail of 20 has moved its head to row 25: row 5 was      *)
(* erased, row 20 repainted dim and row 9 repainted dark                   *)
C18_Witness ==
  /\ adv.due
  /\ ~adv.respawn
  /\ adv.tailLen = 20
  /\ columns[adv.col].headRow = 25
  /\ \E i, j, k \in DOMAIN calls :
       /\ calls[i].by = "clearRainChar" /\ calls[i].y = 5 * CHAR_H
       /\ calls[j].by = "drawRainChar" /\ calls[j].y = 20 * CHAR_H
       /\ calls[j].color = matrix.dim
       /\ calls[k].by = "drawRainChar" /\ calls[k].y = 9 * CHAR_H
       /\ calls[k].color = matrix.dark

(* C19: on an advance that does not respawn, lastUpdateMs is first          *)
(* increased by intervalMs and is then set to now exactly when it still     *)
(* lags now by more than one interval; when the remaining lag is exactly    *)
(* one interval it keeps the increased value.                               *)
C19_SnapOnlyBeyondOneInterval ==
  [][ (VisitDue /\ ~VisitRespawns) =>
        LET c == columns[col]
            stepped == Add32(c.lastUpdateMs, c.intervalMs)
        IN  columns'[col].lastUpdateMs =
              IF Gt32n(Sub32(adv'.at, stepped), c.intervalMs)
              THEN adv'.at ELSE stepped ]_vars

(* a stream with a 50 ms interval set up at 0 is first visited at 100 ms:   *)
(* increased by one interval it lags by exactly 50 ms, and it was set to    *)
(* now                                                                      *)
C19_Witness ==
  /\ adv.at = U32Of(100)
  /\ adv.due
  /\ ~adv.respawn
  /\ adv.snap
  /\ columns[adv.col].intervalMs = 50
  /\ columns[adv.col].headRow = 0
  /\ columns[adv.col].lastUpdateMs = adv.at

(* the number of renders of the overlay text in a draw log *)
RenderCount(cs) ==
  Cardinality({ i \in DOMAIN cs : cs[i].by = "updateTimeOverlay" })

(* the step changes the colour scheme *)
ColorChange == currentColorScheme' # currentColorScheme

(* C20: the overlay text is rendered only by updateTimeOverlay, in a pass   *)
(* where the overlay is active, not expired at the millis() the call reads  *)
(* and needsDraw is set, and the                                            *)
(* render clears needsDraw; needsDraw is set again only by an activation    *)
(* (touch or minute change) or by a colour-scheme change while the overlay  *)
(* is active.  A colour-scheme change while the overlay is inactive leaves  *)
(* the overlay as it is, and one while it is active sets needsDraw and      *)
(* changes neither active nor endMs.                                        *)
C20_OverlayRedraw ==
  /\ [][ (RenderCount(calls') > RenderCount(calls)) <=>
           /\ pc = "updateTimeOverlay"
           /\ overlay.active
           /\ ~Gt32(clock', overlay.endMs)
           /\ overlay.needsDraw ]_vars
  /\ [][ RenderCount(calls') > RenderCount(calls) =>
           /\ calls' = Append(calls, OverlayTextCall(timeText, matrix.bright))
           /\ overlay' = [ overlay EXCEPT !.needsDraw = FALSE ] ]_vars
  /\ [][ (~overlay.needsDraw /\ overlay'.needsDraw) =>
           \/ /\ pc \in { "handleTouch", "checkMinuteTick" }
              /\ \E now \in { touch'.now, clock' } : Activated(overlay', now)
           \/ /\ ColorChange
              /\ overlay.active ]_vars
  /\ [][ ColorChange =>
           IF overlay.active
           THEN overlay' = [ overlay EXCEPT !.needsDraw = TRUE ]
           ELSE overlay' = overlay ]_vars

(* the pass at 600 ms changed the colour scheme while the overlay set up   *)
(* at 0 was showing the text rendered at 300 ms, and its updateTimeOverlay  *)
(* rendered the text again in the new bright colour                         *)
C20_Witness ==
  /\ pc = "loop"
  /\ touch.route = "colorToggle"
  /\ currentColorScheme = 1
  /\ overlay.active
  /\ overlay.startMs = ZeroMs
  /\ ~overlay.needsDraw
  /\ clock = U32Of(600)
  /\ RenderCount(calls) = 1
  /\ calls[Len(calls)] = OverlayTextCall(timeText, colorSchemes[2].bright)

(* the step is a handleTouch that read the raw point (0,0), which it drops  *)
(* before it looks at the menu or the corners                               *)
SpuriousTouch ==
  /\ pc = "handleTouch"
  /\ touch'.route # "untouched"
  /\ touch'.p = << 0, 0 >>

(* the step is a handleTouch in the settings menu that read a touch other   *)
(* than (0,0) outside the settings-toggle corner: the touch is passed to    *)
(* handleSettingsTouch                                                      *)
SettingsTouch ==
  /\ pc = "handleTouch"
  /\ settingsActive
  /\ touch'.route # "untouched"
  /\ touch'.p # << 0, 0 >>
  /\ ~InSettingsCorner(touch'.p)

(* b is a one step away from a on a dial of n values *)
OneStep(a, b, n) == b = (a + 1) % n \/ b = (a + n - 1) % n

(* C21: in Settings a touch outside the settings-toggle corner, the colour- *)
(* toggle corner included, changes neither currentColorScheme and the rain  *)
(* colours, nor the overlay and the clock text, nor settingsActive, nor the *)
(* time source, the streams, or the debounce timestamps of the two toggles; *)
(* it may change settingsHour, settingsMinute and lastSettingsButtonMs, and *)
(* at most one of the two fields, by one step.  The same holds of a (0,0)   *)
(* reading in Settings, which handleTouch drops.                            *)
C21_SettingsTouchFrame ==
  [][ (SettingsTouch \/ (SpuriousTouch /\ settingsActive)) =>
        /\ UNCHANGED << currentColorScheme, matrix, overlay, settingsActive,
                        timeText, rtc, lastDisplayedMinute, columns, glyphs,
                        buttons, lastSettingsToggleMs, lastColorToggleMs >>
        /\ \/ UNCHANGED << settingsHour, settingsMinute >>
           \/ /\ OneStep(settingsHour, settingsHour', 24)
              /\ settingsMinute' = settingsMinute
           \/ /\ OneStep(settingsMinute, settingsMinute', 60)
              /\ settingsHour' = settingsHour ]_vars

(* a touch in the colour-toggle corner, which the minute+ control reaches   *)
(* into, was read in Settings: the minute went up and the scheme is still 0 *)
C21_Witness ==
  /\ pc = "checkMinuteTick"
  /\ settingsActive
  /\ InColorCorner(touch.p)
  /\ touch.route = "minuteUp"
  /\ settingsMinute = 1
  /\ settingsHour = 12
  /\ currentColorScheme = 0
  /\ lastSettingsButtonMs = clock

(* C22: a touch sample whose raw reading is (0,0) is ignored in Idle and in *)
(* Settings: handleTouch leaves settingsActive, settingsHour,               *)
(* settingsMinute, currentColorScheme and the colours, the overlay, the     *)
(* clock text and the three debounce timestamps unchanged and draws         *)
(* nothing.                                                                 *)
C22_SpuriousTouchIgnored ==
  [][ SpuriousTouch =>
        /\ UNCHANGED << settingsActive, settingsHour, settingsMinute, buttons,
                        currentColorScheme, matrix, overlay, timeText, rtc,
                        lastDisplayedMinute, columns, glyphs,
                        lastSettingsToggleMs, lastSettingsButtonMs,
                        lastColorToggleMs >>
        /\ calls' = calls ]_vars

(* the raw point (0,0) was read in Idle after the overlay had expired, and  *)
(* the overlay is still inactive                                            *)
C22_Witness ==
  /\ pc = "checkMinuteTick"
  /\ touch.p = << 0, 0 >>
  /\ touch.route = "spurious"
  /\ ~settingsActive
  /\ ~overlay.active
  /\ calls = << >>

(* C23: in Idle, checkMinuteTick activates the overlay exactly when the     *)
(* minute it reads from the time source differs from lastDisplayedMinute,   *)
(* and then sets lastDisplayedMinute to that minute and refreshes the clock *)
(* text; a call that reads the minute last displayed changes nothing and    *)
(* draws nothing.  The minute read is the one the time source holds before  *)
(* or after the call; when the time source does not change during the call  *)
(* the overlay is activated exactly when its minute differs.                *)
C23_MinuteTick ==
  /\ [][ (pc = "checkMinuteTick" /\ ~settingsActive) =>
           IF lastDisplayedMinute' # lastDisplayedMinute
           THEN /\ Activated(overlay', clock')
                /\ lastDisplayedMinute' \in { rtc.minute, rtc'.minute }
                /\ TextOfReads
           ELSE /\ rtc'.minute = lastDisplayedMinute
                /\ UNCHANGED << overlay, lastDisplayedMinute, timeText,
                                calls >> ]_vars
  /\ [][ (pc = "checkMinuteTick" /\ ~settingsActive /\ rtc' = rtc) =>
           ( lastDisplayedMinute' # lastDisplayedMinute
               <=> rtc.minute # lastDisplayedMinute ) ]_vars

(* the minute changed to 12:01 after the first overlay had expired; the     *)
(* pass that followed read no touch, and its checkMinuteTick activated the  *)
(* overlay and took over the minute                                         *)
C23_Witness ==
  /\ pc = "updateMatrixRain"
  /\ ~settingsActive
  /\ touch.route = "untouched"
  /\ rtc.minute = 1
  /\ lastDisplayedMinute = 1
  /\ timeText = << 49, 50, 58, 48, 49 >>
  /\ overlay.active
  /\ overlay.startMs = clock
  /\ clock = U32Of(4100)
  /\ Len(calls) = 1
  /\ IsOverlayFill(calls[1])

(* C24: an iteration of updateMatrixRain changes no glyph of another        *)
(* column, and of its own column only the entry at the new head row, and    *)
(* that only when the column was due and the new head is a visible row; the *)
(* head is drawn with the glyph just stored, and the bright, dim and dark   *)
(* repaints draw the glyph that was stored for their row before the         *)
(* iteration.                                                               *)
C24_GlyphFrame ==
  [][ pc = "updateMatrixRain" =>
        LET new == SubSeq(calls', Len(calls) + 1, Len(calls'))
            newHead == columns'[col].headRow
        IN  /\ \A k \in Tracked \ { col } : glyphs'[k] = glyphs[k]
            /\ \A r \in Rows :
                 glyphs'[col][r] # glyphs[col][r] =>
                   /\ VisitDue
                   /\ r = newHead
            /\ \A i \in DOMAIN new :
                 new[i].by = "drawRainChar" =>
                   LET r == new[i].y \div CHAR_H
                   IN  /\ new[i].x = col * CHAR_W
                       /\ IF new[i].color = matrix.head
                          THEN r = newHead /\ new[i].what = glyphs'[col][r]
                          ELSE r # newHead /\ new[i].what = glyphs[col][r] ]_vars

(* two columns are tracked and the second has just been advanced in the     *)
(* same call as the first: the head of the first entered row 11 under the   *)
(* active overlay, where its glyph was stored though not drawn, and the     *)
(* head of the second was stored and drawn at row 9; at rows 10 and 11 the  *)
(* first column holds the glyph its head stored and the second still the    *)
(* glyph of initColumns, and the repaints of each column drew the glyph     *)
(* stored for their row                                                     *)
C24_Witness ==
  /\ Tracked = { startOverlayCol, endOverlayCol }
  /\ adv.due
  /\ ~adv.respawn
  /\ adv.col = endOverlayCol
  /\ overlay.active
  /\ columns[startOverlayCol].headRow = 11
  /\ columns[endOverlayCol].headRow = 9
  /\ \A r \in 0 .. 11 : glyphs[startOverlayCol][r] = GLYPH_END - 1
  /\ glyphs[startOverlayCol][12] = GLYPH_FIRST
  /\ \A r \in 0 .. 9 : glyphs[endOverlayCol][r] = GLYPH_END - 1
  /\ \A r \in 10 .. 12 : glyphs[endOverlayCol][r] = GLYPH_FIRST
  /\ \A i \in DOMAIN calls :
       ~(calls[i].x = startOverlayCol * CHAR_W /\ calls[i].y = 11 * CHAR_H)
  /\ \E i, j, k \in DOMAIN calls :
       /\ calls[i].x = startOverlayCol * CHAR_W
       /\ calls[i].y = 10 * CHAR_H /\ calls[i].color = matrix.bright
       /\ calls[i].what = GLYPH_END - 1
       /\ calls[j].x = endOverlayCol * CHAR_W
       /\ calls[j].y = 9 * CHAR_H /\ calls[j].color = matrix.head
       /\ calls[j].what = GLYPH_END - 1
       /\ calls[k].x = endOverlayCol * CHAR_W
       /\ calls[k].y = 8 * CHAR_H /\ calls[k].color = matrix.bright
       /\ calls[k].what = GLYPH_END - 1

(* the milliseconds from WrapBoot to the time x of a run of SpecWrap,       *)
(* counted without modular arithmetic: x is either in the last 190 ms       *)
(* before                                                                   *)
(* the wrap or in the first 2^16 ms after it                                *)
SinceWrapBoot(x) ==
  IF x[1] = WrapBoot[1] THEN x[2] - WrapBoot[2]
  ELSE (Half - WrapBoot[2]) + x[2]

(* C25: across the wrap of the millisecond counter the due check still      *)
(* measures the true elapsed time: a column visited by updateMatrixRain is  *)
(* advanced exactly when the time that really passed since its lastUpdateMs *)
(* is at least intervalMs, and the lastUpdateMs it is left with is the true *)
(* lastUpdateMs + intervalMs, or now when it still lags by an interval,     *)
(* wrapped to 32 bits.  The first part states the range of the runs: every  *)
(* time of a run that set its columns up lies in the 2^16 ms before the     *)
(* wrap or the 2^16 ms after it.                                            *)
C25_DueCheckAcrossWrap ==
  /\ [](pc # "halt" => \A c \in Tracked :
          /\ columns[c].lastUpdateMs[1] \in { 0, WrapBoot[1] }
          /\ clock[1] \in { 0, WrapBoot[1] }
          /\ SinceWrapBoot(columns[c].lastUpdateMs) <= SinceWrapBoot(clock))
  /\ [][ pc = "updateMatrixRain" =>
           LET c == columns[col]
               now == adv'.at
               elapsed == SinceWrapBoot(now) - SinceWrapBoot(c.lastUpdateMs)
               stepped == SinceWrapBoot(c.lastUpdateMs) + c.intervalMs
           IN  IF elapsed >= c.intervalMs
               THEN /\ columns'[col].headRow = c.headRow + 1
                    /\ SinceWrapBoot(columns'[col].lastUpdateMs) =
                         IF SinceWrapBoot(now) - stepped >= c.intervalMs
                         THEN SinceWrapBoot(now) ELSE stepped
               ELSE columns'[col] = c ]_vars

(* the pass 10 ms after the wrap advanced a 50 ms column whose lastUpdateMs *)
(* was 40 ms before the wrap, and left it with lastUpdateMs 10 ms after it; *)
(* it was the fourth advance of the run                                     *)
C25_Witness ==
  /\ adv.due
  /\ ~adv.snap
  /\ adv.at = << 0, 10 >>
  /\ columns[adv.col].intervalMs = 50
  /\ columns[adv.col].lastUpdateMs = << 0, 10 >>
  /\ columns[adv.col].headRow = 3

(* the overlay's end time has wrapped below its start time *)
EndWrapped(ov) == Lt32(ov.endMs, ov.startMs)

(* the step is a call of updateTimeOverlay that finds the overlay active    *)
(* with an end time that wrapped                                            *)
TickOfWrappedOverlay ==
  /\ pc = "updateTimeOverlay"
  /\ pc' # pc
  /\ overlay.active
  /\ EndWrapped(overlay)

(* C26 as stated: an overlay activated at a time now with now + 3600 >=     *)
(* 2^32 is deactivated by the next call of updateTimeOverlay, which clears  *)
(* needsDraw, and its text is never rendered.                               *)
C26_WrappedOverlayNeverRendered ==
  [][ TickOfWrappedOverlay =>
        /\ ~overlay'.active
        /\ ~overlay'.needsDraw
        /\ calls' = calls ]_vars

(* C26: the expiry test compares now with endMs as plain unsigned numbers.  *)
(* An activation at a time now with now + 3600 >= 2^32 leaves endMs below   *)
(* now.  A call of updateTimeOverlay that reads a time before the counter   *)
(* has wrapped finds now > endMs, deactivates the overlay and clears        *)
(* needsDraw without rendering the text; a call that reads a time after the *)
(* wrap finds now <= endMs, renders the text when needsDraw is set and      *)
(* leaves the overlay active.                                               *)
C26_OverlayExpiryAtWrap ==
  /\ [][ (pc \in { "handleTouch", "checkMinuteTick" }
            /\ Activated(overlay', overlay'.startMs)
            /\ overlay'.startMs \in { touch'.now, clock' }
            /\ overlay'.startMs[1] = WrapBoot[1]) =>
           /\ EndWrapped(overlay')
           /\ Lt32(overlay'.endMs, overlay'.startMs) ]_vars
  /\ [][ TickOfWrappedOverlay =>
           IF Ge32(clock', overlay.startMs)
           THEN /\ ~overlay'.active
                /\ ~overlay'.needsDraw
                /\ calls' = calls
           ELSE /\ overlay'.active
                /\ ~overlay'.needsDraw
                /\ overlay.needsDraw =>
                     calls' = Append(calls, OverlayTextCall(timeText, matrix.bright))
                /\ ~overlay.needsDraw => calls' = calls ]_vars

(* a centre touch 50 ms into the run, 140 ms before the wrap, found the     *)
(* overlay inactive, filled its rectangle and activated it; the same pass   *)
(* has deactivated it again without rendering the text                      *)
C26_Witness ==
  /\ pc = "loop"
  /\ clock = Add32(WrapBoot, 50)
  /\ touch.route = "showClock"
  /\ overlay.startMs = clock
  /\ EndWrapped(overlay)
  /\ ~overlay.active
  /\ ~overlay.needsDraw
  /\ RenderCount(calls) = 0
  /\ \E i \in DOMAIN calls : IsOverlayFill(calls[i])

(* C27: in every state an overlay marked for a redraw is active, whatever   *)
(* touches, minute changes, colour changes, settings toggles and expiries   *)
(* came before.                                                             *)
C27_NeedsDrawImpliesActive == [](overlay.needsDraw => overlay.active)

(* the colour scheme was changed after the overlay had expired, and the     *)
(* overlay is neither active nor marked for a redraw                        *)
C27_Witness ==
  /\ pc = "checkMinuteTick"
  /\ touch.route = "colorToggle"
  /\ currentColorScheme # 0
  /\ ~overlay.active
  /\ ~overlay.needsDraw
  /\ Gt32(clock, overlay.endMs)

(* C28: after initialization and in every state after it every column has   *)
(* -NUM_ROWS <= headRow <= NUM_ROWS + tailLength - 1; initColumns leaves    *)
(* every headRow negative, and so does every respawn, so that a stream just *)
(* set up has no cell on the screen.                                        *)
C28_HeadRowRange ==
  /\ pc # "halt" => \A c \in Tracked : columns[c].headRow < 0
  /\ [](\A c \in Tracked :
          /\ columns[c].headRow >= -NUM_ROWS
          /\ columns[c].headRow <= NUM_ROWS + columns[c].tailLength - 1)
  /\ [][ (VisitDue /\ VisitRespawns) =>
           /\ columns'[col].headRow < 0
           /\ columns'[col].headRow >= -NUM_ROWS ]_vars

(* a stream with the longest tail went as far down as row NUM_ROWS +        *)
(* MAX_TAIL_LEN - 1 and respawned as far up as row -NUM_ROWS                *)
C28_Witness ==
  /\ adv.due
  /\ adv.respawn
  /\ adv.prevHead = NUM_ROWS + MAX_TAIL_LEN - 1
  /\ columns[adv.col].headRow = -NUM_ROWS

(* C29: while the overlay is inactive, an advance that takes the head to    *)
(* row h draws the head exactly when h is a visible row, erases row         *)
(* h - tailLength exactly when that is a visible row, and draws nothing at  *)
(* or above the erased row; so a visible row is drawn as head, erased       *)
(* tailLength advances later and not drawn again.  A respawn follows the    *)
(* advance that took the head to NUM_ROWS + tailLength - 1, which erased    *)
(* row NUM_ROWS - 1, and the respawning advance draws and erases nothing.   *)
C29_StreamErasesItself ==
  /\ [][ (VisitDue /\ ~overlay.active
            /\ columns'[col].headRow = columns[col].headRow + 1) =>
           LET t == columns[col].tailLength
               h == columns'[col].headRow
               new == SubSeq(calls', Len(calls) + 1, Len(calls'))
               heads == { i \in DOMAIN new : /\ new[i].by = "drawRainChar"
                                             /\ new[i].color = matrix.head }
               erases == { i \in DOMAIN new : new[i].by = "clearRainChar" }
           IN  /\ columns'[col].tailLength = t
               /\ Cardinality(heads) = (IF h \in Rows THEN 1 ELSE 0)
               /\ \A i \in heads : new[i].y = h * CHAR_H
               /\ Cardinality(erases) = (IF h - t \in Rows THEN 1 ELSE 0)
               /\ \A i \in erases : new[i].y = (h - t) * CHAR_H
               /\ \A i \in DOMAIN new :
                    /\ new[i].x = col * CHAR_W
                    /\ new[i].by = "drawRainChar" =>
                         /\ new[i].y > (h - t) * CHAR_H
                         /\ new[i].y <= h * CHAR_H
               /\ h = NUM_ROWS + t - 1 =>
                    new = << Call("clearRainChar", col * CHAR_W,
                                  (NUM_ROWS - 1) * CHAR_H, CHAR_W, CHAR_H, 0,
                                  matrixBgColor) >> ]_vars
  /\ [][ (VisitDue /\ columns'[col].headRow # columns[col].headRow + 1) =>
           /\ columns[col].headRow = NUM_ROWS + columns[col].tailLength - 1
           /\ columns'[col].headRow < 0
           /\ calls' = calls ]_vars

(* long after the overlay expired, a stream with the shortest tail has made *)
(* its last advance before the respawn, which erased row NUM_ROWS - 1 and   *)
(* drew nothing                                                             *)
C29_Witness ==
  /\ adv.due
  /\ ~adv.respawn
  /\ ~overlay.active
  /\ adv.tailLen = MIN_TAIL_LEN
  /\ columns[adv.col].headRow = NUM_ROWS + MIN_TAIL_LEN - 1
  /\ Gt32n(Sub32(clock, overlay.endMs), 2200)
  /\ Len(calls) = 1
  /\ calls[1].by = "clearRainChar"
  /\ calls[1].y = (NUM_ROWS - 1) * CHAR_H

(* the raw points of the sensor's native range *)
NativeRange == (0 .. 240) \X (0 .. 320)

(* no raw point of the native range maps into the colour-toggle corner: the *)
(* mapped x is at most 240, below SCREEN_W - COLOR_TOGGLE_REGION_W          *)
NativeRangeMissesColorCorner ==
  \A p \in NativeRange :
    /\ TouchPoint(p) = << 240 - p[1], 320 - p[2] >>
    /\ TouchPoint(p)[1] <= 240
    /\ 240 < SCREEN_W - COLOR_TOGGLE_REGION_W
    /\ ~isColorToggleTouch(TouchPoint(p)[1], TouchPoint(p)[2])

(* C30: a raw sample in the native range 0..240 by 0..320 maps to the point *)
(* (240 - rawX, 320 - rawY), which never passes the colour-toggle test; so  *)
(* with touches from that range only, no touch is routed to                 *)
(* cycleColorScheme and currentColorScheme is 0 in every state.             *)
C30_NativeTouchNeverTogglesColor ==
  /\ []NativeRangeMissesColorCorner
  /\ [](/\ touch.p \in NativeRange
        /\ touch.route \notin { "colorToggle", "colorToggleDebounce" }
        /\ currentColorScheme = 0
        /\ matrix = ColorSchemesNow[1]
        /\ lastColorToggleMs = ZeroMs)

(* the raw point (0, 1), mapped to (240, 319), was read in Idle after the   *)
(* overlay had expired: it showed the clock and the scheme is still 0       *)
C30_Witness ==
  /\ pc = "checkMinuteTick"
  /\ touch.p = NativeCornerPoint
  /\ << touch.x, touch.y >> = << 240, 319 >>
  /\ touch.route = "showClock"
  /\ overlay.startMs = clock
  /\ Len(calls) = 1
  /\ IsOverlayFill(calls[1])
  /\ currentColorScheme = 0

(* the columns SpecLive tracks *)
LiveCols == { startOverlayCol }

(* C31: with loop() running forever in Idle and the millisecond counter     *)
(* going on, every column is advanced again and again and respawns again    *)
(* and again: its headRow never stops changing, and from every state its    *)
(* head comes to a visible row again.  (When setup() halts for want of a    *)
(* touch controller, loop() is never called and no tick occurs.)            *)
C31_ColumnsKeepFalling ==
  \A c \in LiveCols :
    \/ pc = "halt"
    \/ /\ []<><< columns'[c].headRow = columns[c].headRow + 1 >>_vars
       /\ []<><< columns'[c].headRow < columns[c].headRow >>_vars
       /\ []<>(columns[c].headRow \in Rows)
       /\ []<>(columns[c].headRow < 0)

(* the counter has gone round to 0 and a stream has respawned in that pass *)
C31_Witness ==
  /\ clock = ZeroMs
  /\ adv.due
  /\ adv.respawn
  /\ ~settingsActive
  /\ columns[adv.col].headRow = -1
  /\ columns[adv.col].lastUpdateMs = ZeroMs

============================================================================
